---- MODULE Spec2Model ----
(***************************************************************************)
(* Model of the ECM derivation pipeline of the ecm-extractor pages:        *)
(* extractBuildingInfo, transformToTableRows and calculateEcmSummary with  *)
(* their helpers calculateTotalCostSavings, calculateEnergySavings and     *)
(* calculateDemandSavings, of the components that show their results, and  *)
(* of the upload page with the reducer state it dispatches to.             *)
(*                                                                         *)
(* An optional field (a `?:` member, or an `undefined` result of find) is  *)
(* a sequence: <<>> when absent, <<v>> when present.  A JavaScript number  *)
(* that comes out of a division is a fraction [num, den] in lowest terms   *)
(* with den > 0; +Infinity is 1/0.                                         *)
(***************************************************************************)
EXTENDS Integers, Sequences, FiniteSets, TLC

VARIABLES ecmData, buildingInfo, tableRows, summary, view, outputRefs, pc,
          state, selectedFile, shouldNavigate, route, inFlight,
          committedMarkdown, effectPending,
          chat, chatRequests

pipelineVars == <<ecmData, buildingInfo, tableRows, summary, view, outputRefs, pc>>

appVars == <<state, selectedFile, shouldNavigate, route, inFlight,
             committedMarkdown, effectPending>>

chatVars == <<chat, chatRequests>>

vars == <<pipelineVars, appVars, chatVars>>

(***************************************************************************)
(* Bounds of the model                                                     *)
(***************************************************************************)
MaxEntries == 2

MaxRecords == 3

\* Longest list of sample records
MaxSample == 4

\* Most requests awaiting their response at a time
MaxInFlight == 2

\* Most messages of a chat
MaxMessages == 5

\* Largest numerator, and product of denominators, of an exact sum of fractions
MaxExact == 30000

\* Number of steps per unit of a sum that is not exact
Resolution == 10000

(***************************************************************************)
(* Values                                                                  *)
(***************************************************************************)
Absent == <<>>

Some(v) == <<v>>

ValueWithUnit(v, u) == [value |-> v, unit |-> u]

Infinity == [num |-> 1, den |-> 0]

Abs(n) == IF n < 0 THEN 0 - n ELSE n

RECURSIVE GCD(_, _)
GCD(a, b) == IF b = 0 THEN a ELSE GCD(b, a % b)

\* The quotient n / d of two numbers with integer values, as JavaScript's `/`
\* gives it for d # 0 and for n # 0.
JsDiv(n, d) ==
  IF d = 0
    THEN [num |-> IF n < 0 THEN 0 - 1 ELSE 1, den |-> 0]
    ELSE LET s == IF d < 0 THEN 0 - 1 ELSE 1
             g == GCD(Abs(n), Abs(d))
         IN  [num |-> (s * n) \div g, den |-> (s * d) \div g]

\* x to the nearest multiple of 1 / Resolution, as a number of such multiples
RoundToResolution(x) ==
  (x.num \div x.den) * Resolution + (2 * (x.num % x.den) * Resolution + x.den) \div (2 * x.den)

\* sum + x on fractions (finite operands only: the code filters before it adds).
\* JavaScript adds doubles, with a relative error of 2^-53; the sum here is
\* exact while numerators and denominators are small, and otherwise the sum of
\* the operands taken to the nearest 1 / Resolution.
JsAdd(a, b) ==
  IF Abs(a.num) <= MaxExact /\ Abs(b.num) <= MaxExact /\ a.den * b.den <= MaxExact
    THEN JsDiv(a.num * b.den + b.num * a.den, a.den * b.den)
    ELSE JsDiv(RoundToResolution(a) + RoundToResolution(b), Resolution)

\* `x > 0` on a fraction or an infinity
JsPositive(x) == x.num > 0

\* `x || 0` for an optional number: undefined and 0 are both falsy
OrZero(opt) == IF opt = Absent THEN 0 ELSE IF opt[1] = 0 THEN 0 ELSE opt[1]

\* `x?.value` for an optional value-with-unit
ValueOf(opt) == IF opt = Absent THEN Absent ELSE Some(opt[1].value)

\* Array.prototype.find with the predicate `e.fuel_type === fuelType`:
\* the first matching entry, or undefined
RECURSIVE FindFuelType(_, _)
FindFuelType(savingsEntries, fuelType) ==
  IF savingsEntries = <<>> THEN Absent
  ELSE IF Head(savingsEntries).fuel_type = fuelType THEN Some(Head(savingsEntries))
  ELSE FindFuelType(Tail(savingsEntries), fuelType)

(***************************************************************************)
(* calculateTotalCostSavings                                               *)
(***************************************************************************)
\* savingsEntries.reduce((sum, entry) => sum + (entry.cost_savings?.value || 0), sum0)
RECURSIVE ReduceCostSavings(_, _)
ReduceCostSavings(savingsEntries, sum) ==
  IF savingsEntries = <<>> THEN sum
  ELSE ReduceCostSavings(Tail(savingsEntries),
                         sum + OrZero(ValueOf(Head(savingsEntries).cost_savings)))

calculateTotalCostSavings_WithoutTotal(savingsEntries) ==
  ReduceCostSavings(SelectSeq(savingsEntries, LAMBDA e : e.fuel_type # "Total"), 0)

calculateTotalCostSavings_IgnoresTotal(savingsEntries) ==
  ReduceCostSavings(savingsEntries, 0)

calculateTotalCostSavings_TotalOrZero(savingsEntries) ==
  LET totalEntry == FindFuelType(savingsEntries, "Total")
  IN  IF totalEntry # Absent
        THEN OrZero(ValueOf(totalEntry[1].cost_savings))
        ELSE ReduceCostSavings(savingsEntries, 0)

calculateTotalCostSavings(savingsEntries) ==
  LET totalEntry == FindFuelType(savingsEntries, "Total")
  IN  IF totalEntry # Absent /\ totalEntry[1].cost_savings # Absent
        THEN totalEntry[1].cost_savings[1].value
        ELSE ReduceCostSavings(savingsEntries, 0)

(***************************************************************************)
(* calculateEnergySavings, calculateDemandSavings                          *)
(***************************************************************************)
calculateEnergySavings_FirstWithEnergy(savingsEntries, fuelType) ==
  LET withEnergy == SelectSeq(savingsEntries, LAMBDA e : e.energy_savings # Absent)
  IN  IF withEnergy = <<>> THEN 0 ELSE OrZero(ValueOf(withEnergy[1].energy_savings))

calculateEnergySavings_MissingSentinel(savingsEntries, fuelType) ==
  LET entry == FindFuelType(savingsEntries, fuelType)
  IN  IF entry = Absent \/ entry[1].energy_savings = Absent
        THEN 0 - 1
        ELSE entry[1].energy_savings[1].value

calculateEnergySavings(savingsEntries, fuelType) ==
  LET entry == FindFuelType(savingsEntries, fuelType)
  IN  OrZero(IF entry = Absent THEN Absent ELSE ValueOf(entry[1].energy_savings))

calculateDemandSavings_AnyFuel(savingsEntries) ==
  LET withDemand == SelectSeq(savingsEntries, LAMBDA e : e.demand_savings # Absent)
  IN  IF withDemand = <<>> THEN 0 ELSE OrZero(ValueOf(withDemand[1].demand_savings))

calculateDemandSavings(savingsEntries) ==
  LET electricityEntry == FindFuelType(savingsEntries, "Electricity")
  IN  OrZero(IF electricityEntry = Absent THEN Absent
             ELSE ValueOf(electricityEntry[1].demand_savings))

(***************************************************************************)
(* extractBuildingInfo                                                     *)
(***************************************************************************)
\* The projection of one record on the BuildingInfo fields; zip_code is
\* zip_code.value.toString()
BuildingInfoOf(ecm) ==
  [building_name |-> ecm.building_name,
   building_address |-> ecm.building_address,
   zip_code |-> ToString(ecm.zip_code.value),
   primary_property_type |-> ecm.primary_property_type,
   gross_floor_area |-> ecm.gross_floor_area,
   site_eui_at_audit |-> ecm.site_eui_at_audit,
   submitter_organization |-> ecm.submitter_organization,
   climate_zone |-> ecm.climate_zone,
   bps_covered |-> ecm.bps_covered,
   bps_policy_name |-> ecm.bps_policy_name,
   has_energy_savings_target |-> ecm.has_energy_savings_target,
   energystar_score_at_audit |-> ecm.energystar_score_at_audit]

extractBuildingInfo_LastRecord(data) ==
  IF Len(data) = 0 THEN Absent ELSE Some(BuildingInfoOf(data[Len(data)]))

extractBuildingInfo(data) ==
  IF Len(data) = 0 THEN Absent ELSE Some(BuildingInfoOf(data[1]))

(***************************************************************************)
(* transformToTableRows                                                    *)
(***************************************************************************)
netCost_AddsIncentives(ecm) == ecm.implementation_cost.value + OrZero(ValueOf(ecm.incentives))

netCost_IgnoresIncentives(ecm) == ecm.implementation_cost.value

\* ecm.implementation_cost.value - (ecm.incentives?.value || 0)
netCost(ecm) == ecm.implementation_cost.value - OrZero(ValueOf(ecm.incentives))

simplePayback_NonZeroSavings(net, annualCostSavings) ==
  IF annualCostSavings # 0 THEN JsDiv(net, annualCostSavings) ELSE Infinity

simplePayback_NegativeAsInfinity(net, annualCostSavings) ==
  IF annualCostSavings > 0 /\ net >= 0 THEN JsDiv(net, annualCostSavings) ELSE Infinity

\* annualCostSavings > 0 ? netCost / annualCostSavings : Infinity
simplePayback(net, annualCostSavings) ==
  IF annualCostSavings > 0 THEN JsDiv(net, annualCostSavings) ELSE Infinity

\* The body of the map callback: the row of record ecm at 0-based position index
TableRow(ecm, index) ==
  LET annualCostSavings == calculateTotalCostSavings(ecm.savings_entries)
  IN  [id |-> "ecm-" \o ToString(index),
       ecm_name |-> ecm.ecm_name,
       ecm_status |-> ecm.ecm_status,
       ecm_scope |-> ecm.ecm_scope,
       implementation_cost |-> ecm.implementation_cost.value,
       annual_cost_savings |-> annualCostSavings,
       incentives |-> OrZero(ValueOf(ecm.incentives)),
       lifetime |-> ecm.ecm_lifetime.value,
       simple_payback |-> simplePayback(netCost(ecm), annualCostSavings),
       electricity_savings |-> calculateEnergySavings(ecm.savings_entries, "Electricity"),
       gas_savings |-> calculateEnergySavings(ecm.savings_entries, "Natural Gas"),
       demand_savings |-> calculateDemandSavings(ecm.savings_entries),
       ecm_description |-> ecm.ecm_description,
       ecm_additional_details |-> ecm.ecm_additional_details,
       ecm_date_identified |-> ecm.ecm_date_identified,
       ecm_package_ids |-> ecm.ecm_package_ids]

transformToTableRows_OneBasedIds(data) ==
  [i \in 1..Len(data) |-> TableRow(data[i], i)]

transformToTableRows(data) ==
  [i \in 1..Len(data) |-> TableRow(data[i], i - 1)]

(***************************************************************************)
(* calculateEcmSummary                                                     *)
(***************************************************************************)
\* numbers.reduce((sum, x) => sum + x, sum0)
RECURSIVE ReduceSum(_, _)
ReduceSum(numbers, sum) ==
  IF numbers = <<>> THEN sum ELSE ReduceSum(Tail(numbers), sum + Head(numbers))

\* validPaybacks.reduce((sum, ecm) => sum + ecm.simple_payback, sum0)
RECURSIVE ReducePayback(_, _)
ReducePayback(rows, sum) ==
  IF rows = <<>> THEN sum
  ELSE ReducePayback(Tail(rows), JsAdd(sum, Head(rows).simple_payback))

\* The summary computed from the table rows and the record count
SummaryOf(rows, count, validPaybacks) ==
  [total_ecms |-> count,
   total_implementation_cost |->
     ReduceSum([i \in 1..Len(rows) |-> rows[i].implementation_cost], 0),
   total_annual_savings |->
     ReduceSum([i \in 1..Len(rows) |-> rows[i].annual_cost_savings], 0),
   total_incentives |->
     ReduceSum([i \in 1..Len(rows) |-> rows[i].incentives], 0),
   average_payback_period |->
     IF Len(validPaybacks) > 0
       THEN LET sum == ReducePayback(validPaybacks, JsDiv(0, 1))
            IN  JsDiv(sum.num, sum.den * Len(validPaybacks))
       ELSE Infinity,
   total_electricity_savings |->
     ReduceSum([i \in 1..Len(rows) |-> rows[i].electricity_savings], 0),
   total_gas_savings |->
     ReduceSum([i \in 1..Len(rows) |-> rows[i].gas_savings], 0)]

IsValidPayback_ZeroIsValid(row) == row.simple_payback # Infinity /\ row.simple_payback.num >= 0

\* ecm.simple_payback !== Infinity && ecm.simple_payback > 0
IsValidPayback(row) == row.simple_payback # Infinity /\ JsPositive(row.simple_payback)

calculateEcmSummary_AveragesNegative(data) ==
  LET rows == transformToTableRows(data)
  IN  SummaryOf(rows, Len(data),
                SelectSeq(rows, LAMBDA r : r.simple_payback # Infinity))

calculateEcmSummary_TotalsOfValidRows(data) ==
  LET rows == SelectSeq(transformToTableRows(data), IsValidPayback)
  IN  SummaryOf(rows, Len(data), rows)

calculateEcmSummary(data) ==
  LET rows == transformToTableRows(data)
  IN  SummaryOf(rows, Len(data), SelectSeq(rows, IsValidPayback))

(***************************************************************************)
(* Exceptions: a plain property read `x.p` throws a TypeError when x is    *)
(* undefined, an optional read `x?.p` never does                           *)
(***************************************************************************)
ReadThrows(opt) == opt = Absent

calculateTotalCostSavingsThrows_UncheckedCostSavings(savingsEntries) ==
  LET totalEntry == FindFuelType(savingsEntries, "Total")
  IN  totalEntry # Absent /\ ReadThrows(totalEntry[1].cost_savings)

\* totalEntry.cost_savings.value is read only after `if (totalEntry?.cost_savings)`;
\* the reduce callback reads entry.cost_savings?.value
calculateTotalCostSavingsThrows(savingsEntries) ==
  LET totalEntry == FindFuelType(savingsEntries, "Total")
  IN  /\ totalEntry # Absent
      /\ totalEntry[1].cost_savings # Absent
      /\ ReadThrows(totalEntry) \/ ReadThrows(totalEntry[1].cost_savings)

\* The reads of the map callback: ecm.implementation_cost.value and
\* ecm.ecm_lifetime.value on required members, ecm.incentives?.value,
\* entry?.energy_savings?.value and electricityEntry?.demand_savings?.value
TableRowThrows(ecm) ==
  \/ calculateTotalCostSavingsThrows(ecm.savings_entries)
  \/ ReadThrows(Some(ecm.implementation_cost))
  \/ ReadThrows(Some(ecm.ecm_lifetime))

transformToTableRowsThrows(data) == \E i \in 1..Len(data) : TableRowThrows(data[i])

\* firstEcm.zip_code.value.toString() on the required member zip_code
extractBuildingInfoThrows(data) == Len(data) # 0 /\ ReadThrows(Some(data[1].zip_code))

\* calculateEcmSummary calls transformToTableRows and then reads numbers only
calculateEcmSummaryThrows(data) == transformToTableRowsThrows(data)

(***************************************************************************)
(* Object identity: an object of the input is named by the record that     *)
(* holds it and the member it is the value of.  An object literal          *)
(* allocates; `member: ecm.member` stores the input's own object.          *)
(***************************************************************************)
ObjectRef(i, member) == [record |-> i, member |-> member]

RequiredObjectMembers ==
  {"zip_code", "primary_property_type_area", "gross_floor_area",
   "implementation_cost", "ecm_lifetime", "site_eui_at_audit"}

OptionalObjectMembers == {"incentives", "ecm_package_ids", "climate_zone"}

\* The objects and arrays reachable from the record list through its members
InputObjects(data) ==
  {ObjectRef(i, m) : i \in 1..Len(data), m \in RequiredObjectMembers}
    \cup {r \in {ObjectRef(i, m) : i \in 1..Len(data), m \in OptionalObjectMembers} :
            data[r.record][r.member] # Absent}
    \cup {ObjectRef(i, "savings_entries") : i \in 1..Len(data)}

\* gross_floor_area, site_eui_at_audit and climate_zone are stored as they
\* are; zip_code is converted to a new string
extractBuildingInfoRefs(data) ==
  IF Len(data) = 0 THEN {}
  ELSE {ObjectRef(1, "gross_floor_area"), ObjectRef(1, "site_eui_at_audit")}
         \cup (IF data[1].climate_zone # Absent THEN {ObjectRef(1, "climate_zone")} ELSE {})

\* Every member of a row is a number or a string, except ecm_package_ids
transformToTableRowsRefs(data) ==
  {ObjectRef(i, "ecm_package_ids") : i \in {j \in 1..Len(data) : data[j].ecm_package_ids # Absent}}

\* The summary holds numbers only
calculateEcmSummaryRefs(data) == {}

(***************************************************************************)
(* The components that show a payback: EcmComparisonTable, EcmDetailCards, *)
(* EcmCharts and EcmOverviewDashboard                                      *)
(***************************************************************************)
\* `x < n` for a fraction or an infinity x and an integer n
JsLess(x, n) == x.den > 0 /\ x.num < n * x.den

\* x.toFixed(1) for a finite x: the nearest multiple of 1/10, the larger one
\* of two equally near ones, taken on the absolute value
ToFixed1(x) ==
  LET tenths == (20 * Abs(x.num) + x.den) \div (2 * x.den)
  IN  (IF x.num < 0 /\ tenths > 0 THEN "-" ELSE "")
        \o ToString(tenths \div 10) \o "." \o ToString(tenths % 10)

\* The chip colour of a payback below 5, below 10, or above
PaybackColor(x) ==
  IF JsLess(x, 5) THEN "success" ELSE IF JsLess(x, 10) THEN "warning" ELSE "error"

TablePaybackCell_OnlyInfinity(value) ==
  [formatted |-> IF value = Infinity THEN "N/A" ELSE ToFixed1(value),
   color |-> IF value = Infinity THEN "default" ELSE PaybackColor(value),
   label |-> IF value = Infinity THEN "N/A" ELSE ToFixed1(value) \o " yrs"]

\* The simple_payback column of the comparison table: valueFormatter, and the
\* colour and label of the chip of renderCell
TablePaybackCell(value) ==
  [formatted |-> IF value = Infinity \/ JsLess(value, 0) THEN "N/A" ELSE ToFixed1(value),
   color |-> IF value = Infinity \/ JsLess(value, 0) THEN "default" ELSE PaybackColor(value),
   label |-> IF value = Infinity \/ JsLess(value, 0) THEN "N/A"
             ELSE ToFixed1(value) \o " yrs"]

\* The detail card of one row: the payback chip of the header, the Net Cost and
\* Simple Payback lines of the cost analysis, and whether the financial
\* summary is shown
DetailCard(ecm) ==
  [chip |-> IF ecm.simple_payback # Infinity /\ JsPositive(ecm.simple_payback)
              THEN Some([label |-> ToFixed1(ecm.simple_payback) \o " yr payback",
                         color |-> PaybackColor(ecm.simple_payback)])
              ELSE Absent,
   net_cost |-> ecm.implementation_cost - ecm.incentives,
   simple_payback |-> IF ecm.simple_payback = Infinity \/ JsLess(ecm.simple_payback, 0)
                        THEN "N/A"
                        ELSE ToFixed1(ecm.simple_payback) \o " years",
   financial_summary |-> ecm.simple_payback # Infinity /\ JsPositive(ecm.simple_payback)]

\* entries.sort((a, b) => a.payback - b.payback): insertion of entry into the
\* sorted list, after the entries that are not larger
RECURSIVE InsertByPayback(_, _)
InsertByPayback(sorted, entry) ==
  IF sorted = <<>> THEN <<entry>>
  ELSE IF entry.payback.num * Head(sorted).payback.den
            < Head(sorted).payback.num * entry.payback.den
         THEN <<entry>> \o sorted
         ELSE <<Head(sorted)>> \o InsertByPayback(Tail(sorted), entry)

RECURSIVE SortByPayback(_)
SortByPayback(entries) ==
  IF entries = <<>> THEN <<>>
  ELSE InsertByPayback(SortByPayback(SubSeq(entries, 1, Len(entries) - 1)),
                       entries[Len(entries)])

\* paybackData of the charts: the rows with a payback that is not Infinity and
\* is > 0, as name and payback, by ascending payback
ChartPaybackData(ecms) ==
  LET kept == SelectSeq(ecms, LAMBDA ecm : ecm.simple_payback # Infinity
                                             /\ JsPositive(ecm.simple_payback))
  IN  SortByPayback([i \in 1..Len(kept) |->
                       [name |-> kept[i].ecm_name, payback |-> kept[i].simple_payback]])

\* The Average Payback Period card of the overview dashboard
DashboardAveragePayback(s) ==
  IF s.average_payback_period = Infinity THEN "N/A"
  ELSE ToFixed1(s.average_payback_period) \o " yrs"

\* What the components show for the rows and the summary
RenderedView(rows, s) ==
  [table |-> [i \in 1..Len(rows) |-> TablePaybackCell(rows[i].simple_payback)],
   cards |-> [i \in 1..Len(rows) |-> DetailCard(rows[i])],
   chart |-> ChartPaybackData(rows),
   average_payback |-> DashboardAveragePayback(s)]

(***************************************************************************)
(* The reducer state of the ecm-extractor pages and the upload page        *)
(***************************************************************************)
initialState ==
  [uploadedFile |-> Absent,
   fileName |-> "",
   extractedMarkdown |-> "",
   editedMarkdown |-> "",
   images |-> <<>>,
   ecmResults |-> Absent,
   isLoading |-> FALSE,
   error |-> Absent,
   uploadedPdfs |-> <<>>,
   currentPdfId |-> Absent]

setUploadedFile(file) == [type |-> "SET_UPLOADED_FILE", payload |-> file]

setMarkdownAndImages(markdown, images, pdfId) ==
  [type |-> "SET_MARKDOWN_AND_IMAGES",
   payload |-> [markdown |-> markdown, images |-> images, pdfId |-> pdfId]]

setLoading(isLoading) == [type |-> "SET_LOADING", payload |-> isLoading]

setError(message) == [type |-> "SET_ERROR", payload |-> message]

setUploadedPdfsList(pdfs) == [type |-> "SET_UPLOADED_PDFS_LIST", payload |-> pdfs]

setEditedMarkdown(markdown) == [type |-> "SET_EDITED_MARKDOWN", payload |-> markdown]

setEcmResults(results) == [type |-> "SET_ECM_RESULTS", payload |-> results]

resetState == [type |-> "RESET_STATE", payload |-> Absent]

\* ecmResults is optional: Absent for a PDF without results
loadPdfData(pdfId, markdown, images, ecmResults) ==
  [type |-> "LOAD_PDF_DATA",
   payload |-> [pdfId |-> pdfId, markdown |-> markdown, images |-> images,
                ecmResults |-> ecmResults]]

deletePdfFromList(pdfId) == [type |-> "DELETE_PDF_FROM_LIST", payload |-> pdfId]

LoadPdfDataCase_KeepsError(s, payload) ==
  [s EXCEPT !.currentPdfId = Some(payload.pdfId),
            !.extractedMarkdown = payload.markdown,
            !.editedMarkdown = payload.markdown,
            !.images = payload.images,
            !.ecmResults = payload.ecmResults]

LoadPdfDataCase_KeepsResults(s, payload) ==
  [s EXCEPT !.currentPdfId = Some(payload.pdfId),
            !.extractedMarkdown = payload.markdown,
            !.editedMarkdown = payload.markdown,
            !.images = payload.images,
            !.ecmResults = IF payload.ecmResults = Absent THEN s.ecmResults
                           ELSE payload.ecmResults,
            !.isLoading = FALSE,
            !.error = Absent]

\* case 'LOAD_PDF_DATA'
LoadPdfDataCase(s, payload) ==
  [s EXCEPT !.currentPdfId = Some(payload.pdfId),
            !.extractedMarkdown = payload.markdown,
            !.editedMarkdown = payload.markdown,
            !.images = payload.images,
            !.ecmResults = payload.ecmResults,
            !.isLoading = FALSE,
            !.error = Absent]

DeletePdfFromListCase_AlwaysClears(s, pdfId) ==
  [s EXCEPT !.uploadedPdfs = SelectSeq(s.uploadedPdfs, LAMBDA pdf : pdf.id # pdfId),
            !.currentPdfId = Absent,
            !.extractedMarkdown = "",
            !.editedMarkdown = "",
            !.images = <<>>,
            !.ecmResults = Absent]

\* case 'DELETE_PDF_FROM_LIST'
DeletePdfFromListCase(s, pdfId) ==
  LET isCurrent == s.currentPdfId = Some(pdfId)
  IN  [s EXCEPT !.uploadedPdfs = SelectSeq(s.uploadedPdfs, LAMBDA pdf : pdf.id # pdfId),
                !.currentPdfId = IF isCurrent THEN Absent ELSE s.currentPdfId,
                !.extractedMarkdown = IF isCurrent THEN "" ELSE s.extractedMarkdown,
                !.editedMarkdown = IF isCurrent THEN "" ELSE s.editedMarkdown,
                !.images = IF isCurrent THEN <<>> ELSE s.images,
                !.ecmResults = IF isCurrent THEN Absent ELSE s.ecmResults]

\* The cases of the reducer that the pages dispatch; pdfId is optional and
\* `action.payload.pdfId || state.currentPdfId` keeps the current id without
\* it; `action.payload.ecmResults || null` is the optional value itself
ecmExtractorReducer(s, action) ==
  CASE action.type = "SET_UPLOADED_FILE" ->
         [s EXCEPT !.uploadedFile = Some(action.payload),
                   !.fileName = action.payload,
                   !.error = Absent]
    [] action.type = "SET_MARKDOWN_AND_IMAGES" ->
         [s EXCEPT !.extractedMarkdown = action.payload.markdown,
                   !.editedMarkdown = action.payload.markdown,
                   !.images = action.payload.images,
                   !.currentPdfId = IF action.payload.pdfId # Absent
                                      THEN action.payload.pdfId
                                      ELSE s.currentPdfId,
                   !.isLoading = FALSE,
                   !.error = Absent]
    [] action.type = "SET_LOADING" -> [s EXCEPT !.isLoading = action.payload]
    [] action.type = "SET_ERROR" ->
         [s EXCEPT !.error = Some(action.payload), !.isLoading = FALSE]
    [] action.type = "SET_UPLOADED_PDFS_LIST" -> [s EXCEPT !.uploadedPdfs = action.payload]
    [] action.type = "SET_EDITED_MARKDOWN" -> [s EXCEPT !.editedMarkdown = action.payload]
    [] action.type = "SET_ECM_RESULTS" ->
         [s EXCEPT !.ecmResults = Some(action.payload),
                   !.isLoading = FALSE,
                   !.error = Absent]
    [] action.type = "RESET_STATE" -> initialState
    [] action.type = "LOAD_PDF_DATA" -> LoadPdfDataCase(s, action.payload)
    [] action.type = "DELETE_PDF_FROM_LIST" -> DeletePdfFromListCase(s, action.payload)
    [] OTHER -> s

\* The dispatches of one handler step, in their order
RECURSIVE Dispatch(_, _)
Dispatch(s, actions) ==
  IF actions = <<>> THEN s
  ELSE Dispatch(ecmExtractorReducer(s, Head(actions)), Tail(actions))

UploadRoute == "/ecm-extractor"

StagingRoute == "/ecm-extractor/staging"

ResultsRoute == "/ecm-extractor/results"

Routes == {UploadRoute, StagingRoute, ResultsRoute}

\* The PDF files the user may select, by name
Files == {"audit-a.pdf", "audit-b.pdf"}

\* What /api/extract-markdown answers for a file
ExtractedData(file) ==
  [markdown |-> "# " \o file, images |-> <<file \o "/page1.png">>, pdf_id |-> Some(file)]

\* The backend names a stored PDF by the name of its file
PdfIds == Files

\* What handleExtract builds from an OK answer of /api/extract-ecm; the
\* records of an extraction are represented by the markdown they were
\* extracted from
EcmResults(fileName, markdown) ==
  [documentInfo |-> [fileName |-> fileName, totalMeasures |-> 1],
   records |-> <<markdown>>,
   recordCount |-> 1]

\* What GET /api/pdfs/{id} may answer with: the stored markdown and images,
\* with or without stored results
PdfData(id) ==
  {[id |-> id,
    markdown |-> ExtractedData(id).markdown,
    images |-> ExtractedData(id).images,
    ecm_results |-> results] :
     results \in {Absent, Some(EcmResults(id, ExtractedData(id).markdown))}}

\* What the user may turn the editor's text into: nothing, or an edited text
Edited(markdown) == markdown \o "\n(edited)"

\* An entry of the PDF list
PdfMetadata(id) == [id |-> id, filename |-> id]

\* What /api/pdfs may answer
PdfLists ==
  {<<>>, <<PdfMetadata("audit-a.pdf")>>,
   <<PdfMetadata("audit-a.pdf"), PdfMetadata("audit-b.pdf")>>}

\* A request awaiting its response, and the handler that awaits it; mounted
\* tells that the page instance that started the handler is still the one
\* shown
Request(handler, request, file) ==
  [handler |-> handler, request |-> request, file |-> file, mounted |-> TRUE]

\* The requests in flight when a page instance is replaced by a new one
Unmounted(requests) == [i \in 1..Len(requests) |-> [requests[i] EXCEPT !.mounted = FALSE]]

RemoveAt(s, i) == [j \in 1..(Len(s) - 1) |-> IF j < i THEN s[j] ELSE s[j + 1]]

Awaiting(handler, request) ==
  {i \in 1..Len(inFlight) : inFlight[i].handler = handler /\ inFlight[i].request = request}

\* UploadPage mounts: the ref is new, both effects run, the first fetches the list
MountUploadPage ==
  /\ route' = UploadRoute
  /\ selectedFile' = Absent
  /\ shouldNavigate' = FALSE
  /\ committedMarkdown' = state.extractedMarkdown
  /\ effectPending' = TRUE
  /\ inFlight' = Append(Unmounted(inFlight), Request("fetchPdfs", "pdfs", ""))

InitApp ==
  /\ state = initialState
  /\ route = UploadRoute
  /\ selectedFile = Absent
  /\ shouldNavigate = FALSE
  /\ committedMarkdown = ""
  /\ effectPending = TRUE
  /\ inFlight = <<Request("fetchPdfs", "pdfs", "")>>

\* fetchPdfs of the mount effect: the list on an OK response
FetchPdfsOk ==
  \E i \in Awaiting("fetchPdfs", "pdfs"), pdfs \in PdfLists :
    /\ state' = Dispatch(state, <<setUploadedPdfsList(pdfs)>>)
    /\ inFlight' = RemoveAt(inFlight, i)
    /\ UNCHANGED <<selectedFile, shouldNavigate, route, committedMarkdown, effectPending>>
    /\ UNCHANGED <<pipelineVars, chatVars>>

\* fetchPdfs: a response that is not OK, or no response, changes nothing
FetchPdfsFails ==
  \E i \in Awaiting("fetchPdfs", "pdfs") :
    /\ inFlight' = RemoveAt(inFlight, i)
    /\ UNCHANGED <<state, selectedFile, shouldNavigate, route, committedMarkdown, effectPending>>
    /\ UNCHANGED <<pipelineVars, chatVars>>

\* handleFileSelect with a PDF file
HandleFileSelect ==
  \E file \in Files :
    /\ route = UploadRoute
    /\ selectedFile # Some(file)
    /\ selectedFile' = Some(file)
    /\ UNCHANGED <<state, shouldNavigate, route, inFlight, committedMarkdown, effectPending>>
    /\ UNCHANGED <<pipelineVars, chatVars>>

\* handleUploadAndProcess up to its first await; the button is disabled
\* without a file and while state.isLoading
HandleUploadAndProcess ==
  /\ route = UploadRoute
  /\ selectedFile # Absent
  /\ ~state.isLoading
  /\ Len(inFlight) < MaxInFlight
  /\ state' = Dispatch(state, <<setUploadedFile(selectedFile[1]), setLoading(TRUE)>>)
  /\ inFlight' = Append(inFlight, Request("handleUploadAndProcess", "extract-markdown",
                                          selectedFile[1]))
  /\ UNCHANGED <<selectedFile, shouldNavigate, route, committedMarkdown, effectPending>>
  /\ UNCHANGED <<pipelineVars, chatVars>>

\* extract-markdown answers OK: the markdown is dispatched and the list is
\* requested
ExtractMarkdownOk ==
  \E i \in Awaiting("handleUploadAndProcess", "extract-markdown") :
    LET data == ExtractedData(inFlight[i].file)
    IN  /\ state' = Dispatch(state, <<setMarkdownAndImages(data.markdown, data.images,
                                                           data.pdf_id)>>)
        /\ inFlight' = [inFlight EXCEPT ![i].request = "pdfs"]
        /\ UNCHANGED <<selectedFile, shouldNavigate, route, committedMarkdown, effectPending>>
        /\ UNCHANGED <<pipelineVars, chatVars>>

\* extract-markdown answers not OK or not at all: catch and finally
ExtractMarkdownFails ==
  \E i \in Awaiting("handleUploadAndProcess", "extract-markdown"),
     message \in {"Failed to extract markdown from PDF", "Failed to fetch"} :
    /\ state' = Dispatch(state, <<setError(message), setLoading(FALSE)>>)
    /\ inFlight' = RemoveAt(inFlight, i)
    /\ UNCHANGED <<selectedFile, shouldNavigate, route, committedMarkdown, effectPending>>
    /\ UNCHANGED <<pipelineVars, chatVars>>

\* The list refresh answers OK: the list is dispatched, the flag of the page
\* instance that started the handler is set, finally
ListPdfsOk ==
  \E i \in Awaiting("handleUploadAndProcess", "pdfs"), pdfs \in PdfLists :
    /\ state' = Dispatch(state, <<setUploadedPdfsList(pdfs), setLoading(FALSE)>>)
    /\ shouldNavigate' = (inFlight[i].mounted \/ shouldNavigate)
    /\ inFlight' = RemoveAt(inFlight, i)
    /\ UNCHANGED <<selectedFile, route, committedMarkdown, effectPending>>
    /\ UNCHANGED <<pipelineVars, chatVars>>

\* The list refresh answers not OK: the flag is set all the same, finally
ListPdfsNotOk ==
  \E i \in Awaiting("handleUploadAndProcess", "pdfs") :
    /\ state' = Dispatch(state, <<setLoading(FALSE)>>)
    /\ shouldNavigate' = (inFlight[i].mounted \/ shouldNavigate)
    /\ inFlight' = RemoveAt(inFlight, i)
    /\ UNCHANGED <<selectedFile, route, committedMarkdown, effectPending>>
    /\ UNCHANGED <<pipelineVars, chatVars>>

\* The list refresh does not answer: catch and finally
ListPdfsFails ==
  \E i \in Awaiting("handleUploadAndProcess", "pdfs") :
    /\ state' = Dispatch(state, <<setError("Failed to fetch"), setLoading(FALSE)>>)
    /\ inFlight' = RemoveAt(inFlight, i)
    /\ UNCHANGED <<selectedFile, shouldNavigate, route, committedMarkdown, effectPending>>
    /\ UNCHANGED <<pipelineVars, chatVars>>

\* UploadPage renders with a changed state.extractedMarkdown, after the
\* effects of the render before: the navigation effect is scheduled
RenderUploadPage ==
  /\ route = UploadRoute
  /\ ~effectPending
  /\ committedMarkdown # state.extractedMarkdown
  /\ committedMarkdown' = state.extractedMarkdown
  /\ effectPending' = TRUE
  /\ UNCHANGED <<state, selectedFile, shouldNavigate, route, inFlight>>
  /\ UNCHANGED <<pipelineVars, chatVars>>

\* useEffect(..., [state.extractedMarkdown, navigate]): the ref is read when
\* the effect runs, state.extractedMarkdown is that of the render
NavigationEffect ==
  /\ route = UploadRoute
  /\ effectPending
  /\ effectPending' = FALSE
  /\ IF shouldNavigate /\ committedMarkdown # ""
       THEN shouldNavigate' = FALSE /\ route' = StagingRoute
       ELSE UNCHANGED <<shouldNavigate, route>>
  /\ UNCHANGED <<state, selectedFile, inFlight, committedMarkdown>>
  /\ UNCHANGED <<pipelineVars, chatVars>>

ResultsPageRenders_Always == route = ResultsRoute

\* What the staging and the results page render: null without the
\* prerequisite of the page
StagingPageRenders == route = StagingRoute /\ state.editedMarkdown # ""

ResultsPageRenders == route = ResultsRoute /\ state.ecmResults # Absent

\* handleBack of the staging page; the button is disabled while
\* state.isLoading
HandleBack ==
  /\ StagingPageRenders
  /\ ~state.isLoading
  /\ Len(inFlight) < MaxInFlight
  /\ MountUploadPage
  /\ UNCHANGED state
  /\ UNCHANGED <<pipelineVars, chatVars>>

\* navigate(to) for the staging or the results page: the upload page, if it
\* is the one shown, unmounts and its local state is gone
NavigateTo(target) ==
  /\ route' = target
  /\ selectedFile' = Absent
  /\ shouldNavigate' = FALSE
  /\ committedMarkdown' = ""
  /\ effectPending' = FALSE

\* The ids of the rows of the PDF table
ListedPdfIds == {state.uploadedPdfs[i].id : i \in 1..Len(state.uploadedPdfs)}

\* handleViewPdf up to its await; the view button of a row is never disabled
HandleViewPdf ==
  \E pdfId \in ListedPdfIds :
    /\ route = UploadRoute
    /\ Len(inFlight) < MaxInFlight
    /\ state' = Dispatch(state, <<setLoading(TRUE)>>)
    /\ inFlight' = Append(inFlight, Request("handleViewPdf", "pdf", pdfId))
    /\ UNCHANGED <<selectedFile, shouldNavigate, route, committedMarkdown, effectPending>>
    /\ UNCHANGED <<pipelineVars, chatVars>>

\* GET /api/pdfs/{id} answers OK: the data is loaded, the handler navigates
\* to the results when the data has some and to the staging page otherwise,
\* finally
ViewPdfOk ==
  \E i \in Awaiting("handleViewPdf", "pdf") :
    \E data \in PdfData(inFlight[i].file) :
      /\ state' = Dispatch(state, <<loadPdfData(data.id, data.markdown, data.images,
                                                data.ecm_results),
                                    setLoading(FALSE)>>)
      /\ NavigateTo(IF data.ecm_results # Absent THEN ResultsRoute ELSE StagingRoute)
      /\ inFlight' = RemoveAt(inFlight, i)
      /\ UNCHANGED <<pipelineVars, chatVars>>

\* GET /api/pdfs/{id} answers not OK or not at all: catch and finally
ViewPdfFails ==
  \E i \in Awaiting("handleViewPdf", "pdf"),
     message \in {"Failed to load PDF data", "Failed to fetch"} :
    /\ state' = Dispatch(state, <<setError(message), setLoading(FALSE)>>)
    /\ inFlight' = RemoveAt(inFlight, i)
    /\ UNCHANGED <<selectedFile, shouldNavigate, route, committedMarkdown, effectPending>>
    /\ UNCHANGED <<pipelineVars, chatVars>>

\* handleDeletePdf up to its await, from the confirmation dialog of a row
HandleDeletePdf ==
  \E pdfId \in ListedPdfIds :
    /\ route = UploadRoute
    /\ Len(inFlight) < MaxInFlight
    /\ inFlight' = Append(inFlight, Request("handleDeletePdf", "delete", pdfId))
    /\ UNCHANGED <<state, selectedFile, shouldNavigate, route, committedMarkdown,
                   effectPending>>
    /\ UNCHANGED <<pipelineVars, chatVars>>

\* DELETE /api/pdfs/{id} answers OK: the PDF is taken from the list
DeletePdfOk ==
  \E i \in Awaiting("handleDeletePdf", "delete") :
    /\ state' = Dispatch(state, <<deletePdfFromList(inFlight[i].file)>>)
    /\ inFlight' = RemoveAt(inFlight, i)
    /\ UNCHANGED <<selectedFile, shouldNavigate, route, committedMarkdown, effectPending>>
    /\ UNCHANGED <<pipelineVars, chatVars>>

DeletePdfFails_Dispatches ==
  \E i \in Awaiting("handleDeletePdf", "delete") :
    /\ state' = Dispatch(state, <<deletePdfFromList(inFlight[i].file)>>)
    /\ inFlight' = RemoveAt(inFlight, i)
    /\ UNCHANGED <<selectedFile, shouldNavigate, route, committedMarkdown, effectPending>>
    /\ UNCHANGED <<pipelineVars, chatVars>>

\* DELETE /api/pdfs/{id} answers not OK or not at all: catch, which alerts
DeletePdfFails ==
  \E i \in Awaiting("handleDeletePdf", "delete") :
    /\ inFlight' = RemoveAt(inFlight, i)
    /\ UNCHANGED <<state, selectedFile, shouldNavigate, route, committedMarkdown,
                   effectPending>>
    /\ UNCHANGED <<pipelineVars, chatVars>>

\* handleMarkdownChange of the editor of the staging page
HandleMarkdownChange ==
  \E markdown \in {"", Edited(state.extractedMarkdown)} :
    /\ StagingPageRenders
    /\ markdown # state.editedMarkdown
    /\ state' = Dispatch(state, <<setEditedMarkdown(markdown)>>)
    /\ UNCHANGED <<selectedFile, shouldNavigate, route, inFlight, committedMarkdown,
                   effectPending>>
    /\ UNCHANGED <<pipelineVars, chatVars>>

\* The request of handleExtract carries the markdown and the file name of the
\* render in which the button was clicked
ExtractRequest(fileName, markdown) ==
  [handler |-> "handleExtract", request |-> "extract-ecm", file |-> fileName,
   mounted |-> TRUE, markdown |-> markdown]

\* handleExtract up to its await; the button is disabled while state.isLoading
HandleExtract ==
  /\ StagingPageRenders
  /\ ~state.isLoading
  /\ Len(inFlight) < MaxInFlight
  /\ state' = Dispatch(state, <<setLoading(TRUE)>>)
  /\ inFlight' = Append(inFlight, ExtractRequest(state.fileName, state.editedMarkdown))
  /\ UNCHANGED <<selectedFile, shouldNavigate, route, committedMarkdown, effectPending>>
  /\ UNCHANGED <<pipelineVars, chatVars>>

ExtractEcmOk_StaysOnStaging ==
  \E i \in Awaiting("handleExtract", "extract-ecm") :
    /\ state' = Dispatch(state, <<setEcmResults(EcmResults(inFlight[i].file,
                                                           inFlight[i].markdown)),
                                  setLoading(FALSE)>>)
    /\ inFlight' = RemoveAt(inFlight, i)
    /\ UNCHANGED <<selectedFile, shouldNavigate, route, committedMarkdown, effectPending>>
    /\ UNCHANGED <<pipelineVars, chatVars>>

\* /api/extract-ecm answers OK: the results are dispatched, the handler
\* navigates to the results page, finally
ExtractEcmOk ==
  \E i \in Awaiting("handleExtract", "extract-ecm") :
    /\ state' = Dispatch(state, <<setEcmResults(EcmResults(inFlight[i].file,
                                                           inFlight[i].markdown)),
                                  setLoading(FALSE)>>)
    /\ NavigateTo(ResultsRoute)
    /\ inFlight' = RemoveAt(inFlight, i)
    /\ UNCHANGED <<pipelineVars, chatVars>>

\* /api/extract-ecm answers not OK or not at all: catch and finally
ExtractEcmFails ==
  \E i \in Awaiting("handleExtract", "extract-ecm"),
     message \in {"Failed to extract ECM data from markdown", "Failed to fetch"} :
    /\ state' = Dispatch(state, <<setError(message), setLoading(FALSE)>>)
    /\ inFlight' = RemoveAt(inFlight, i)
    /\ UNCHANGED <<selectedFile, shouldNavigate, route, committedMarkdown, effectPending>>
    /\ UNCHANGED <<pipelineVars, chatVars>>

\* The effect of the staging page: without markdown it navigates to the
\* upload page
StagingGuard ==
  /\ route = StagingRoute
  /\ state.editedMarkdown = ""
  /\ Len(inFlight) < MaxInFlight
  /\ MountUploadPage
  /\ UNCHANGED state
  /\ UNCHANGED <<pipelineVars, chatVars>>

\* The effect of the results page: without results it navigates to the
\* upload page
ResultsGuard ==
  /\ route = ResultsRoute
  /\ state.ecmResults = Absent
  /\ Len(inFlight) < MaxInFlight
  /\ MountUploadPage
  /\ UNCHANGED state
  /\ UNCHANGED <<pipelineVars, chatVars>>

\* handleBackToEdit of the results page
HandleBackToEdit ==
  /\ ResultsPageRenders
  /\ NavigateTo(StagingRoute)
  /\ UNCHANGED <<state, inFlight>>
  /\ UNCHANGED <<pipelineVars, chatVars>>

\* handleNewExtraction of the results page: the state is reset and the upload
\* page mounts with it
HandleNewExtraction ==
  /\ ResultsPageRenders
  /\ Len(inFlight) < MaxInFlight
  /\ state' = Dispatch(state, <<resetState>>)
  /\ route' = UploadRoute
  /\ selectedFile' = Absent
  /\ shouldNavigate' = FALSE
  /\ committedMarkdown' = initialState.extractedMarkdown
  /\ effectPending' = TRUE
  /\ inFlight' = Append(Unmounted(inFlight), Request("fetchPdfs", "pdfs", ""))
  /\ UNCHANGED <<pipelineVars, chatVars>>

(***************************************************************************)
(* EcmChatAssistant: the messages, the input and the request to /api/chat  *)
(***************************************************************************)
Message(role, content) == [role |-> role, content |-> content]

Greeting ==
  Message("assistant",
          "Hello! I'm your ECM Data Assistant. I can help you analyze the Energy Conservation Measures data. Ask me anything about the ECMs, costs, savings, or recommendations!")

\* String.prototype.trim, for texts whose white space is the space
RECURSIVE TrimStart(_)
TrimStart(text) ==
  IF text = "" THEN ""
  ELSE IF Head(text) = " " THEN TrimStart(Tail(text)) ELSE text

RECURSIVE TrimEnd(_)
TrimEnd(text) ==
  IF text = "" THEN ""
  ELSE IF SubSeq(text, Len(text), Len(text)) = " "
         THEN TrimEnd(SubSeq(text, 1, Len(text) - 1))
         ELSE text

Trim(text) == TrimEnd(TrimStart(text))

\* What the user may type
Inputs == {"", "  ", "Which ECM pays back first?", " Compare the savings "}

\* What /api/chat may answer as data.message, the empty text among them
Replies == {"The LED retrofit pays back first.", ""}

ChatMessages == {"Chat service unavailable", "Failed to get response from AI"}

InitChat ==
  /\ chat = [messages |-> <<Greeting>>, input |-> "", isLoading |-> FALSE, error |-> Absent]
  /\ chatRequests = <<>>

\* onChange of the text field, which is disabled while isLoading
HandleInputChange ==
  \E text \in Inputs :
    /\ ~chat.isLoading
    /\ text # chat.input
    /\ chat' = [chat EXCEPT !.input = text]
    /\ UNCHANGED chatRequests
    /\ UNCHANGED <<pipelineVars, appVars>>

HandleSendMessage_NoTrim ==
  /\ ~chat.isLoading
  /\ Len(chat.messages) < MaxMessages
  /\ IF chat.input = ""
       THEN UNCHANGED chatVars
       ELSE LET userMessage == Message("user", chat.input)
            IN  /\ chat' = [chat EXCEPT !.messages = Append(chat.messages, userMessage),
                                        !.input = "",
                                        !.isLoading = TRUE,
                                        !.error = Absent]
                /\ chatRequests' = Append(chatRequests,
                                          [messages |-> Append(chat.messages, userMessage)])
  /\ UNCHANGED <<pipelineVars, appVars>>

\* handleSendMessage up to its await, from the button or the Enter key of the
\* text field, which is disabled while isLoading; a blank input returns at once
HandleSendMessage ==
  /\ ~chat.isLoading
  /\ Len(chat.messages) < MaxMessages
  /\ IF Trim(chat.input) = ""
       THEN UNCHANGED chatVars
       ELSE LET userMessage == Message("user", chat.input)
            IN  /\ chat' = [chat EXCEPT !.messages = Append(chat.messages, userMessage),
                                        !.input = "",
                                        !.isLoading = TRUE,
                                        !.error = Absent]
                /\ chatRequests' = Append(chatRequests,
                                          [messages |-> Append(chat.messages, userMessage)])
  /\ UNCHANGED <<pipelineVars, appVars>>

\* /api/chat answers OK: the message of the assistant, `data.message ||
\* 'No response'`, is appended, finally
ChatOk ==
  \E reply \in Replies :
    /\ chatRequests # <<>>
    /\ chat' = [chat EXCEPT !.messages =
                              Append(chat.messages,
                                     Message("assistant",
                                             IF reply = "" THEN "No response" ELSE reply)),
                            !.isLoading = FALSE]
    /\ chatRequests' = Tail(chatRequests)
    /\ UNCHANGED <<pipelineVars, appVars>>

\* /api/chat answers not OK or not at all: catch and finally
ChatFails ==
  \E message \in ChatMessages :
    /\ chatRequests # <<>>
    /\ chat' = [chat EXCEPT !.error = Some(message), !.isLoading = FALSE]
    /\ chatRequests' = Tail(chatRequests)
    /\ UNCHANGED <<pipelineVars, appVars>>

\* onClose of the error alert
HandleCloseError ==
  /\ chat.error # Absent
  /\ chat' = [chat EXCEPT !.error = Absent]
  /\ UNCHANGED chatRequests
  /\ UNCHANGED <<pipelineVars, appVars>>

(***************************************************************************)
(* Inputs: the records the extraction response may carry                   *)
(***************************************************************************)
SeqsUpTo(S, n) == UNION {[1..k -> S] : k \in 0..n}

SavingsEntry(fuelType, energy, cost, demand) ==
  [fuel_type |-> fuelType,
   energy_savings |-> energy,
   cost_savings |-> cost,
   demand_savings |-> demand]

FuelTypes == {"Electricity", "Natural Gas", "Total", "Fuel Oil"}

CostSavingsValues == {Absent} \cup {Some(ValueWithUnit(v, "$")) : v \in {0, 50, 100}}

EnergySavingsValues == {Absent, Some(ValueWithUnit(7, "kWh"))}

DemandSavingsValues == {Absent, Some(ValueWithUnit(3, "kW"))}

SavingsEntries ==
  {SavingsEntry(f, e, c, d) : f \in FuelTypes, e \in EnergySavingsValues,
                              c \in CostSavingsValues, d \in DemandSavingsValues}

\* Building and audit context of a record, and the packages it belongs to
Buildings ==
  {[building_name |-> "Wurster Hall", building_address |-> "230 Bauer Wurster",
    zip_code |-> ValueWithUnit(94720, "zip"), climate_zone |-> Some([scheme |-> "ASHRAE", code |-> "3C"]),
    bps_covered |-> Some(TRUE), bps_policy_name |-> Some("BERDO"),
    has_energy_savings_target |-> Some(FALSE), energystar_score_at_audit |-> Some(75),
    ecm_package_ids |-> Absent,
    gross_floor_area |-> ValueWithUnit(5000, "ft2"), site_eui_at_audit |-> ValueWithUnit(80, "kBtu/ft2")],
   [building_name |-> "Wurster Hall", building_address |-> "230 Bauer Wurster",
    zip_code |-> ValueWithUnit(94720, "zip"), climate_zone |-> Some([scheme |-> "ASHRAE", code |-> "4A"]),
    bps_covered |-> Some(TRUE), bps_policy_name |-> Some("BERDO"),
    has_energy_savings_target |-> Some(TRUE), energystar_score_at_audit |-> Some(60),
    ecm_package_ids |-> Absent,
    gross_floor_area |-> ValueWithUnit(5000, "m2"), site_eui_at_audit |-> ValueWithUnit(80, "kBtu/ft2")],
   [building_name |-> "Annex", building_address |-> "1 Cyclotron Rd",
    zip_code |-> ValueWithUnit(2139, "zip"), climate_zone |-> Absent,
    bps_covered |-> Absent, bps_policy_name |-> Absent,
    has_energy_savings_target |-> Absent, energystar_score_at_audit |-> Absent,
    ecm_package_ids |-> Some(<<"PKG-1", "PKG-2">>),
    gross_floor_area |-> ValueWithUnit(900, "ft2"), site_eui_at_audit |-> ValueWithUnit(45, "kBtu/ft2")]}

DefaultBuilding == CHOOSE b \in Buildings : b.energystar_score_at_audit = Some(75)

\* One EcmData record
EcmRecord(building, cost, incentives, savingsEntries) ==
  [submitter_organization |-> "LBNL",
   source_filename |-> "audit.pdf",
   source_file_type |-> "pdf",
   building_name |-> building.building_name,
   building_address |-> building.building_address,
   zip_code |-> building.zip_code,
   primary_property_type |-> "College/University",
   primary_property_type_area |-> building.gross_floor_area,
   gross_floor_area |-> building.gross_floor_area,
   ecm_name |-> "LED Lighting",
   ecm_description |-> "Replace fixtures",
   ecm_additional_details |-> Absent,
   ecm_status |-> "Identified",
   ecm_scope |-> "Measure",
   ecm_date_identified |-> Absent,
   savings_entries |-> savingsEntries,
   implementation_cost |-> ValueWithUnit(cost, "$"),
   incentives |-> incentives,
   ecm_lifetime |-> ValueWithUnit(15, "yr"),
   ecm_package_ids |-> building.ecm_package_ids,
   site_eui_at_audit |-> building.site_eui_at_audit,
   climate_zone |-> building.climate_zone,
   bps_covered |-> building.bps_covered,
   bps_policy_name |-> building.bps_policy_name,
   has_energy_savings_target |-> building.has_energy_savings_target,
   energystar_score_at_audit |-> building.energystar_score_at_audit]

IncentivesValues == {Absent} \cup {Some(ValueWithUnit(v, "$")) : v \in {0, 1000, 1500}}

\* Savings of the records of a portfolio: none, a Total entry, two fuels,
\* electricity only, and a fuel whose cost rises
PortfolioSavings ==
  {<<>>,
   <<SavingsEntry("Total", Absent, Some(ValueWithUnit(500, "$")), Absent)>>,
   <<SavingsEntry("Electricity", Some(ValueWithUnit(7, "kWh")), Some(ValueWithUnit(100, "$")),
                  Some(ValueWithUnit(3, "kW"))),
     SavingsEntry("Natural Gas", Some(ValueWithUnit(9, "therm")), Some(ValueWithUnit(150, "$")), Absent)>>,
   <<SavingsEntry("Electricity", Some(ValueWithUnit(7, "kWh")), Some(ValueWithUnit(100, "$")), Absent)>>,
   <<SavingsEntry("Natural Gas", Some(ValueWithUnit(0 - 9, "therm")), Some(ValueWithUnit(0 - 50, "$")), Absent)>>}

PortfolioRecords ==
  {EcmRecord(DefaultBuilding, 1000, i, s) : i \in IncentivesValues, s \in PortfolioSavings}

RowRecords ==
  {EcmRecord(DefaultBuilding, 1000, Absent, s) : s \in SeqsUpTo(SavingsEntries, MaxEntries)}

BuildingRecords ==
  {EcmRecord(b, 1000, Absent, <<>>) : b \in Buildings}

(***************************************************************************)
(* The pipeline over one extraction result                                 *)
(***************************************************************************)
\* The building of the sample records.  zip_code.value is the string '80203'
\* in the source, whose toString() is the same string; site EUI 59.1 and the
\* demand savings 5.2, 8.5 and 11.0 are in tenths.
SampleBuilding ==
  [building_name |-> "970 Penn", building_address |-> "970 Pennsylvania St",
   zip_code |-> ValueWithUnit(80203, "zip"), climate_zone |-> Some([scheme |-> "ASHRAE", code |-> "5B"]),
   bps_covered |-> Some(TRUE), bps_policy_name |-> Some("Building Energy Performance Standards"),
   has_energy_savings_target |-> Some(TRUE), energystar_score_at_audit |-> Some(68),
   ecm_package_ids |-> Absent,
   gross_floor_area |-> ValueWithUnit(24416, "sqft"), site_eui_at_audit |-> ValueWithUnit(591, "0.1 kBtu/sf")]

SampleRecord(name, details, savingsEntries, cost, incentives, lifetime) ==
  [EcmRecord(SampleBuilding, cost, incentives, savingsEntries) EXCEPT
     !.submitter_organization = "Sustainable Real Estate Solutions, Inc. (SRS)",
     !.source_file_type = "PDF",
     !.primary_property_type = "Multifamily Housing",
     !.ecm_name = name,
     !.ecm_description = name,
     !.ecm_additional_details = details,
     !.ecm_date_identified = Some("2024-03-20"),
     !.ecm_lifetime = ValueWithUnit(lifetime, "year")]

RoofReplacement ==
  SampleRecord("Roof Replacement", Absent,
    <<SavingsEntry("Electricity", Some(ValueWithUnit(708, "kWh")), Absent, Absent),
      SavingsEntry("Natural Gas", Some(ValueWithUnit(474, "therm")), Absent, Absent),
      SavingsEntry("Total", Absent, Some(ValueWithUnit(504, "USD")), Absent)>>,
    75590, Absent, 25)

LedLighting ==
  SampleRecord("LED Lighting", Some("Total Capacity Replaced: 100.0%"),
    <<SavingsEntry("Electricity", Some(ValueWithUnit(15410, "kWh")),
                   Some(ValueWithUnit(2188, "USD")), Some(ValueWithUnit(52, "0.1 kW")))>>,
    10756, Some(ValueWithUnit(5378, "USD")), 20)

VariableRefrigerantFlow ==
  SampleRecord("Variable Refrigerant Flow", Some("VRF"),
    <<SavingsEntry("Electricity", Some(ValueWithUnit(1622, "kWh")), Absent,
                   Some(ValueWithUnit(85, "0.1 kW"))),
      SavingsEntry("Natural Gas", Some(ValueWithUnit(7391, "therm")), Absent, Absent),
      SavingsEntry("Total", Absent, Some(ValueWithUnit(6515, "USD")), Absent)>>,
    515564, Some(ValueWithUnit(289500, "USD")), 20)

SolarPV ==
  SampleRecord("Solar PV-11kW", Some("PV"),
    <<SavingsEntry("Electricity", Some(ValueWithUnit(15959, "kWh")),
                   Some(ValueWithUnit(12640, "USD")), Some(ValueWithUnit(110, "0.1 kW")))>>,
    32452, Absent, 25)

\* The four records of the sample extraction
mockResults == <<RoofReplacement, LedLighting, VariableRefrigerantFlow, SolarPV>>

InitOutputs ==
  /\ buildingInfo = Absent
  /\ outputRefs = {}
  /\ tableRows = <<>>
  /\ summary = Absent
  /\ view = Absent
  /\ pc = "extractBuildingInfo"
  /\ InitApp
  /\ InitChat

\* A portfolio of records that differ in their economics
Init ==
  /\ ecmData \in SeqsUpTo(PortfolioRecords, MaxRecords)
  /\ InitOutputs

\* One record, with every list of savings entries
InitRow ==
  /\ ecmData \in {<<r>> : r \in RowRecords}
  /\ InitOutputs

\* Records that differ in their building and audit context
InitBuilding ==
  /\ ecmData \in SeqsUpTo(BuildingRecords, MaxRecords)
  /\ InitOutputs

ExtractBuildingInfo ==
  /\ pc = "extractBuildingInfo"
  /\ buildingInfo' = IF extractBuildingInfoThrows(ecmData) THEN buildingInfo
                     ELSE extractBuildingInfo(ecmData)
  /\ pc' = IF extractBuildingInfoThrows(ecmData) THEN "threw" ELSE "transformToTableRows"
  /\ outputRefs' = IF extractBuildingInfoThrows(ecmData) THEN outputRefs
                   ELSE outputRefs \cup extractBuildingInfoRefs(ecmData)
  /\ UNCHANGED <<ecmData, tableRows, summary, view>>
  /\ UNCHANGED <<appVars, chatVars>>

TransformToTableRows ==
  /\ pc = "transformToTableRows"
  /\ tableRows' = IF transformToTableRowsThrows(ecmData) THEN tableRows
                  ELSE transformToTableRows(ecmData)
  /\ pc' = IF transformToTableRowsThrows(ecmData) THEN "threw" ELSE "calculateEcmSummary"
  /\ outputRefs' = IF transformToTableRowsThrows(ecmData) THEN outputRefs
                   ELSE outputRefs \cup transformToTableRowsRefs(ecmData)
  /\ UNCHANGED <<ecmData, buildingInfo, summary, view>>
  /\ UNCHANGED <<appVars, chatVars>>

CalculateEcmSummary ==
  /\ pc = "calculateEcmSummary"
  /\ summary' = IF calculateEcmSummaryThrows(ecmData) THEN summary
                ELSE Some(calculateEcmSummary(ecmData))
  /\ pc' = IF calculateEcmSummaryThrows(ecmData) THEN "threw" ELSE "render"
  /\ outputRefs' = IF calculateEcmSummaryThrows(ecmData) THEN outputRefs
                   ELSE outputRefs \cup calculateEcmSummaryRefs(ecmData)
  /\ UNCHANGED <<ecmData, buildingInfo, tableRows, view>>
  /\ UNCHANGED <<appVars, chatVars>>

\* The components render the rows and the summary
Render ==
  /\ pc = "render"
  /\ view' = Some(RenderedView(tableRows, summary[1]))
  /\ pc' = "done"
  /\ UNCHANGED <<ecmData, buildingInfo, tableRows, summary, outputRefs>>
  /\ UNCHANGED <<appVars, chatVars>>

Next == ExtractBuildingInfo \/ TransformToTableRows \/ CalculateEcmSummary \/ Render

Spec == Init /\ [][Next]_vars

SpecRow == InitRow /\ [][Next]_vars

SpecBuilding == InitBuilding /\ [][Next]_vars

\* Every record list of the three kinds
InitShapes ==
  /\ ecmData \in SeqsUpTo(PortfolioRecords, MaxRecords)
                   \cup {<<r>> : r \in RowRecords}
                   \cup SeqsUpTo(BuildingRecords, MaxRecords)
  /\ InitOutputs

SpecShapes == InitShapes /\ [][Next]_vars

\* Every list of sample records, the sample extraction among them
InitSample ==
  /\ ecmData \in SeqsUpTo({mockResults[i] : i \in 1..Len(mockResults)}, MaxSample)
  /\ InitOutputs

SpecSample == InitSample /\ [][Next]_vars

\* The upload page from its first mount
InitUpload ==
  /\ ecmData = <<>>
  /\ InitOutputs

NextUpload ==
  \/ FetchPdfsOk \/ FetchPdfsFails
  \/ HandleFileSelect \/ HandleUploadAndProcess
  \/ ExtractMarkdownOk \/ ExtractMarkdownFails
  \/ ListPdfsOk \/ ListPdfsNotOk \/ ListPdfsFails
  \/ RenderUploadPage \/ NavigationEffect
  \/ HandleBack

\* Every request is answered, and React renders and runs its effects; the
\* user may stop at any time
SpecUpload ==
  /\ InitUpload
  /\ [][NextUpload]_vars
  /\ WF_vars(FetchPdfsOk \/ FetchPdfsFails)
  /\ WF_vars(ExtractMarkdownOk \/ ExtractMarkdownFails)
  /\ WF_vars(ListPdfsOk \/ ListPdfsNotOk \/ ListPdfsFails)
  /\ WF_vars(RenderUploadPage)
  /\ WF_vars(NavigationEffect)

\* The upload page with a backend whose extract-markdown and list requests
\* all succeed
NextUploadSucceeds ==
  \/ FetchPdfsOk
  \/ HandleFileSelect \/ HandleUploadAndProcess
  \/ ExtractMarkdownOk
  \/ ListPdfsOk
  \/ RenderUploadPage \/ NavigationEffect
  \/ HandleBack

SpecUploadSucceeds ==
  /\ InitUpload
  /\ [][NextUploadSucceeds]_vars
  /\ WF_vars(FetchPdfsOk)
  /\ WF_vars(ExtractMarkdownOk)
  /\ WF_vars(ListPdfsOk)
  /\ WF_vars(RenderUploadPage)
  /\ WF_vars(NavigationEffect)

\* The application opened at any of its routes, with the initial state of the
\* provider; only the upload page fetches the list when it mounts
InitRoutes ==
  /\ ecmData = <<>>
  /\ buildingInfo = Absent
  /\ outputRefs = {}
  /\ tableRows = <<>>
  /\ summary = Absent
  /\ view = Absent
  /\ pc = "extractBuildingInfo"
  /\ state = initialState
  /\ route \in Routes
  /\ selectedFile = Absent
  /\ shouldNavigate = FALSE
  /\ committedMarkdown = ""
  /\ effectPending = (route = UploadRoute)
  /\ inFlight = IF route = UploadRoute THEN <<Request("fetchPdfs", "pdfs", "")>> ELSE <<>>
  /\ InitChat

\* The PDF library of the upload page, the staging and the results page, with
\* every outcome of every request; no file is uploaded
NextLibrary ==
  \/ FetchPdfsOk \/ FetchPdfsFails
  \/ HandleViewPdf \/ ViewPdfOk \/ ViewPdfFails
  \/ HandleDeletePdf \/ DeletePdfOk \/ DeletePdfFails
  \/ HandleMarkdownChange
  \/ HandleExtract \/ ExtractEcmOk \/ ExtractEcmFails
  \/ StagingGuard \/ ResultsGuard
  \/ HandleBack \/ HandleBackToEdit \/ HandleNewExtraction

SpecLibrary == InitRoutes /\ [][NextLibrary]_vars

\* The pages with a backend that answers every request OK
NextPages ==
  \/ FetchPdfsOk
  \/ HandleViewPdf \/ ViewPdfOk
  \/ HandleDeletePdf \/ DeletePdfOk
  \/ HandleMarkdownChange
  \/ StagingGuard \/ ResultsGuard
  \/ HandleBack \/ HandleBackToEdit \/ HandleNewExtraction

\* Every request is answered and React runs the effects of the pages; the user
\* may stop at any time
SpecPages ==
  /\ InitRoutes
  /\ [][NextPages]_vars
  /\ WF_vars(FetchPdfsOk)
  /\ WF_vars(ViewPdfOk)
  /\ WF_vars(DeletePdfOk)
  /\ WF_vars(StagingGuard)
  /\ WF_vars(ResultsGuard)

\* The chat of the assistant: every request is answered
NextChat ==
  \/ HandleInputChange \/ HandleSendMessage
  \/ ChatOk \/ ChatFails
  \/ HandleCloseError

SpecChat ==
  /\ InitUpload
  /\ [][NextChat]_vars
  /\ WF_vars(ChatOk \/ ChatFails)

\* Uploads that succeed, extraction of the uploaded markdown, and the way back
\* from the results to the upload page
NextReupload ==
  \/ NextUploadSucceeds
  \/ HandleExtract \/ ExtractEcmOk
  \/ HandleBackToEdit

SpecReupload == InitUpload /\ [][NextReupload]_vars

\* The rows of the library viewed, with a backend that answers every view
\* request OK; the view buttons are reachable until the first answer navigates
\* away
NextViews ==
  \/ FetchPdfsOk \/ FetchPdfsFails
  \/ HandleFileSelect
  \/ NavigationEffect
  \/ HandleViewPdf \/ ViewPdfOk
  \/ HandleDeletePdf \/ DeletePdfFails

SpecViews ==
  /\ InitUpload
  /\ [][NextViews]_vars
  /\ WF_vars(FetchPdfsOk \/ FetchPdfsFails)
  /\ WF_vars(NavigationEffect)
  /\ WF_vars(ViewPdfOk)
  /\ WF_vars(DeletePdfFails)

(***************************************************************************)
(* Properties                                                              *)
(***************************************************************************)
RowsComputed == pc \in {"calculateEcmSummary", "render", "done"}

InfoComputed == pc \notin {"extractBuildingInfo", "threw"}

SummaryComputed == pc \in {"render", "done"}

ViewRendered == pc = "done"

\* Entry j of entries is labelled "Total" and carries cost_savings
IsTotalWithCost(entries, j) ==
  entries[j].fuel_type = "Total" /\ entries[j].cost_savings # Absent

\* Entry j is the first entry of entries with the label
IsFirstLabelled(entries, j, label) ==
  /\ entries[j].fuel_type = label
  /\ \A k \in 1..(j - 1) : entries[k].fuel_type # label

\* The cost_savings values of all entries added up, a missing one counting 0
RECURSIVE SumOfCostSavings(_)
SumOfCostSavings(entries) ==
  IF entries = <<>> THEN 0
  ELSE LET last == entries[Len(entries)]
       IN  SumOfCostSavings(SubSeq(entries, 1, Len(entries) - 1))
             + (IF last.cost_savings = Absent THEN 0 ELSE last.cost_savings[1].value)

\* C1 as stated: whenever any entry labelled "Total" carries cost_savings = X,
\* the row's annual_cost_savings is X, whatever the other entries are (further
\* "Total" entries included).
C1_AnyTotalEntryDecides ==
  RowsComputed =>
    \A i \in 1..Len(ecmData) :
      \A j \in 1..Len(ecmData[i].savings_entries) :
        IsTotalWithCost(ecmData[i].savings_entries, j) =>
          tableRows[i].annual_cost_savings = ecmData[i].savings_entries[j].cost_savings[1].value

\* C1 amended: when the first entry labelled "Total" carries cost_savings = X,
\* the row's annual_cost_savings is X, whatever the other entries are.
C1_FirstTotalEntryDecides ==
  RowsComputed =>
    \A i \in 1..Len(ecmData) :
      \A j \in 1..Len(ecmData[i].savings_entries) :
        (/\ IsFirstLabelled(ecmData[i].savings_entries, j, "Total")
         /\ ecmData[i].savings_entries[j].cost_savings # Absent) =>
          tableRows[i].annual_cost_savings = ecmData[i].savings_entries[j].cost_savings[1].value

\* A row computed from a fuel entry with cost savings 50 followed by a first
\* "Total" entry with cost savings 100: the row carries 100.
C1_Witness ==
  /\ RowsComputed
  /\ Len(ecmData) = 1
  /\ Len(ecmData[1].savings_entries) = 2
  /\ ecmData[1].savings_entries[1].fuel_type = "Electricity"
  /\ ecmData[1].savings_entries[1].cost_savings = Some(ValueWithUnit(50, "$"))
  /\ ecmData[1].savings_entries[2].fuel_type = "Total"
  /\ ecmData[1].savings_entries[2].cost_savings = Some(ValueWithUnit(100, "$"))
  /\ tableRows[1].annual_cost_savings = 100

\* C2: a record with no "Total" entry carrying cost_savings has
\* annual_cost_savings equal to the sum of cost_savings.value over all its
\* entries, an entry without cost_savings counting 0 and repeated labels each
\* counted.
C2_SumWithoutTotal ==
  RowsComputed =>
    \A i \in 1..Len(ecmData) :
      (\A j \in 1..Len(ecmData[i].savings_entries) :
          ~IsTotalWithCost(ecmData[i].savings_entries, j)) =>
        tableRows[i].annual_cost_savings = SumOfCostSavings(ecmData[i].savings_entries)

\* Electricity 100 + Natural Gas 50 gives 150.
C2_Witness ==
  /\ RowsComputed
  /\ Len(ecmData) = 1
  /\ Len(ecmData[1].savings_entries) = 2
  /\ ecmData[1].savings_entries[1].fuel_type = "Electricity"
  /\ ecmData[1].savings_entries[1].cost_savings = Some(ValueWithUnit(100, "$"))
  /\ ecmData[1].savings_entries[2].fuel_type = "Natural Gas"
  /\ ecmData[1].savings_entries[2].cost_savings = Some(ValueWithUnit(50, "$"))
  /\ tableRows[1].annual_cost_savings = 150

\* implementation_cost.value minus incentives.value, absent incentives being 0
NetCostOf(ecm) ==
  ecm.implementation_cost.value
    - (IF ecm.incentives = Absent THEN 0 ELSE ecm.incentives[1].value)

\* x is the finite quotient n / d, d > 0
IsQuotient(x, n, d) == x.den > 0 /\ x.num * d = n * x.den

\* C3: simple_payback is (implementation cost - incentives) / annual_cost_savings
\* when annual_cost_savings > 0 and +Infinity when it is 0 or negative;
\* (1000, 0, 0) gives +Infinity, (1000, 0, 500) gives 2 and (1000, 1500, 100)
\* gives -5.
C3_SimplePayback ==
  RowsComputed =>
    \A i \in 1..Len(ecmData) :
      LET net == NetCostOf(ecmData[i])
          annual == tableRows[i].annual_cost_savings
          payback == tableRows[i].simple_payback
      IN  /\ annual > 0 => IsQuotient(payback, net, annual)
          /\ annual <= 0 => payback = Infinity
          /\ (net = 1000 /\ annual = 0) => payback = Infinity
          /\ (net = 1000 /\ annual = 500) => payback = [num |-> 2, den |-> 1]
          /\ (net = 0 - 500 /\ annual = 100) => payback = [num |-> 0 - 5, den |-> 1]

\* A row of cost 1000, incentives 1500 and savings 100 with payback -5, next
\* to a row of cost 1000 without savings and with payback +Infinity.
C3_Witness ==
  /\ RowsComputed
  /\ \E i, j \in 1..Len(ecmData) :
       /\ ecmData[i].implementation_cost.value = 1000
       /\ ecmData[i].incentives = Some(ValueWithUnit(1500, "$"))
       /\ tableRows[i].annual_cost_savings = 100
       /\ tableRows[i].simple_payback = [num |-> 0 - 5, den |-> 1]
       /\ ecmData[j].incentives = Some(ValueWithUnit(0, "$"))
       /\ tableRows[j].annual_cost_savings = 0
       /\ tableRows[j].simple_payback = Infinity

\* A payback that is finite and > 0
IsFinitePositive(x) == x.den > 0 /\ x.num > 0

\* The product of the denominators of the finite positive paybacks of rows 1..n
RECURSIVE DenominatorProduct(_, _)
DenominatorProduct(rows, n) ==
  IF n = 0 THEN 1
  ELSE DenominatorProduct(rows, n - 1)
         * (IF IsFinitePositive(rows[n].simple_payback) THEN rows[n].simple_payback.den ELSE 1)

\* The sum of the finite positive paybacks of rows 1..n, in units of 1/d
RECURSIVE ScaledPaybackSum(_, _, _)
ScaledPaybackSum(rows, n, d) ==
  IF n = 0 THEN 0
  ELSE ScaledPaybackSum(rows, n - 1, d)
         + (IF IsFinitePositive(rows[n].simple_payback)
              THEN rows[n].simple_payback.num * (d \div rows[n].simple_payback.den)
              ELSE 0)

\* C4: average_payback_period is the unweighted mean of simple_payback over
\* exactly the rows whose payback is finite and > 0, and +Infinity when no row
\* qualifies (the empty list included); paybacks [2, +Infinity, 4] give 3.
C4_AveragePayback ==
  SummaryComputed =>
    LET qualifying == {i \in 1..Len(tableRows) : IsFinitePositive(tableRows[i].simple_payback)}
        average == summary[1].average_payback_period
        d == DenominatorProduct(tableRows, Len(tableRows))
    IN  /\ qualifying = {} => average = Infinity
        /\ qualifying # {} =>
             /\ average.den > 0
             /\ average.num * Cardinality(qualifying) * d
                  = average.den * ScaledPaybackSum(tableRows, Len(tableRows), d)
        /\ (/\ Len(tableRows) = 3
            /\ tableRows[1].simple_payback = [num |-> 2, den |-> 1]
            /\ tableRows[2].simple_payback = Infinity
            /\ tableRows[3].simple_payback = [num |-> 4, den |-> 1])
             => average = [num |-> 3, den |-> 1]

\* Paybacks [2, +Infinity, 4] with average 3.
C4_Witness ==
  /\ SummaryComputed
  /\ Len(tableRows) = 3
  /\ tableRows[1].simple_payback = [num |-> 2, den |-> 1]
  /\ tableRows[2].simple_payback = Infinity
  /\ tableRows[3].simple_payback = [num |-> 4, den |-> 1]
  /\ summary[1].average_payback_period = [num |-> 3, den |-> 1]

\* The numbers added up from the last to the first
RECURSIVE SumBackwards(_, _)
SumBackwards(numbers, n) ==
  IF n = 0 THEN 0 ELSE numbers[n] + SumBackwards(numbers, n - 1)

\* The values picked by field(row) added up over all rows
SumOverRows(rows, n, field(_)) ==
  SumBackwards([i \in 1..n |-> field(rows[i])], n)

\* C5: every total of the summary is the sum of its field over all rows of
\* transformToTableRows on the same list, no row skipped; total_ecms is the
\* number of records; the empty list gives all totals 0.
C5_TotalsOverAllRows ==
  SummaryComputed =>
    LET n == Len(tableRows)
        s == summary[1]
    IN  /\ s.total_ecms = Len(ecmData)
        /\ s.total_implementation_cost
             = SumOverRows(tableRows, n, LAMBDA r : r.implementation_cost)
        /\ s.total_annual_savings
             = SumOverRows(tableRows, n, LAMBDA r : r.annual_cost_savings)
        /\ s.total_incentives = SumOverRows(tableRows, n, LAMBDA r : r.incentives)
        /\ s.total_electricity_savings
             = SumOverRows(tableRows, n, LAMBDA r : r.electricity_savings)
        /\ s.total_gas_savings = SumOverRows(tableRows, n, LAMBDA r : r.gas_savings)
        /\ ecmData = <<>> =>
             /\ s.total_ecms = 0
             /\ s.total_implementation_cost = 0
             /\ s.total_annual_savings = 0
             /\ s.total_incentives = 0
             /\ s.total_electricity_savings = 0
             /\ s.total_gas_savings = 0

\* Three rows with paybacks +Infinity, negative and positive, all three in the
\* totals.
C5_Witness ==
  /\ SummaryComputed
  /\ Len(tableRows) = 3
  /\ tableRows[1].simple_payback = Infinity
  /\ tableRows[1].gas_savings = 0 - 9
  /\ tableRows[2].simple_payback = [num |-> 0 - 5, den |-> 1]
  /\ tableRows[3].simple_payback = [num |-> 4, den |-> 1]
  /\ summary[1].total_ecms = 3
  /\ summary[1].total_implementation_cost = 3000
  /\ summary[1].total_annual_savings = 300
  /\ summary[1].total_incentives = 1500
  /\ summary[1].total_electricity_savings = 14
  /\ summary[1].total_gas_savings = 0

\* C6: extractBuildingInfo gives the absent result for the empty list and
\* otherwise the projection of the first record: any list with the same first
\* record gives the same building info, whatever its later records are.
C6_FirstRecordOnly ==
  InfoComputed =>
    /\ ecmData = <<>> => buildingInfo = Absent
    /\ ecmData # <<>> =>
         /\ buildingInfo # Absent
         /\ buildingInfo[1].building_name = ecmData[1].building_name
         /\ buildingInfo[1].building_address = ecmData[1].building_address
         /\ buildingInfo[1].zip_code = ToString(ecmData[1].zip_code.value)
         /\ buildingInfo[1].primary_property_type = ecmData[1].primary_property_type
         /\ buildingInfo[1].gross_floor_area = ecmData[1].gross_floor_area
         /\ buildingInfo[1].site_eui_at_audit = ecmData[1].site_eui_at_audit
         /\ buildingInfo[1].submitter_organization = ecmData[1].submitter_organization
         /\ buildingInfo[1].climate_zone = ecmData[1].climate_zone
         /\ buildingInfo[1].bps_covered = ecmData[1].bps_covered
         /\ buildingInfo[1].bps_policy_name = ecmData[1].bps_policy_name
         /\ buildingInfo[1].has_energy_savings_target = ecmData[1].has_energy_savings_target
         /\ buildingInfo[1].energystar_score_at_audit = ecmData[1].energystar_score_at_audit
         /\ \A later \in SeqsUpTo(BuildingRecords, 2) :
              extractBuildingInfo(<<ecmData[1]>> \o later) = buildingInfo

\* The building info of a list whose second record names another building
\* with another zip code: the first record's name and zip code.
C6_Witness ==
  /\ InfoComputed
  /\ Len(ecmData) >= 2
  /\ ecmData[1].building_name = "Wurster Hall"
  /\ ecmData[2].building_name = "Annex"
  /\ ecmData[Len(ecmData)].zip_code.value = 2139
  /\ buildingInfo # Absent
  /\ buildingInfo[1].building_name = "Wurster Hall"
  /\ buildingInfo[1].zip_code = "94720"

\* The row without its id
WithoutId(row) == [row EXCEPT !.id = ""]

\* C7: transformToTableRows returns one row per record in input order: the
\* same length, row i derived from record i only, with id "ecm-i" (0-based),
\* so that ids are pairwise distinct and independent of the field values.
C7_OneRowPerRecord ==
  RowsComputed =>
    /\ Len(tableRows) = Len(ecmData)
    /\ \A i \in 1..Len(tableRows) :
         /\ tableRows[i].id = "ecm-" \o ToString(i - 1)
         /\ WithoutId(tableRows[i]) = WithoutId(transformToTableRows(<<ecmData[i]>>)[1])
         /\ tableRows[i].implementation_cost = ecmData[i].implementation_cost.value
         /\ tableRows[i].ecm_name = ecmData[i].ecm_name
    /\ \A i, j \in 1..Len(tableRows) : i # j => tableRows[i].id # tableRows[j].id
    /\ Len(tableRows) >= 1 => tableRows[1].id = "ecm-0"

\* Three rows of three records, the first and the last record equal: ids
\* ecm-0, ecm-1, ecm-2.
C7_Witness ==
  /\ RowsComputed
  /\ Len(ecmData) = 3
  /\ ecmData[1] = ecmData[3]
  /\ ecmData[1] # ecmData[2]
  /\ tableRows[1].id = "ecm-0"
  /\ tableRows[2].id = "ecm-1"
  /\ tableRows[3].id = "ecm-2"
  /\ WithoutId(tableRows[1]) = WithoutId(tableRows[3])
  /\ WithoutId(tableRows[1]) # WithoutId(tableRows[2])

\* The energy_savings.value of the first entry of entries labelled label, 0
\* when no entry has the label or that entry has no energy_savings
EnergyOfLabel(entries, label) ==
  IF \A j \in 1..Len(entries) : entries[j].fuel_type # label THEN 0
  ELSE LET j == CHOOSE k \in 1..Len(entries) : IsFirstLabelled(entries, k, label)
       IN  IF entries[j].energy_savings = Absent THEN 0
           ELSE entries[j].energy_savings[1].value

\* C8: electricity_savings / gas_savings is the energy_savings.value of the
\* entry labelled "Electricity" / "Natural Gas", and 0 if no entry has that
\* label or the entry has no energy_savings; entries with any other label,
\* "Total" included, never contribute.
C8_EnergySavingsByLabel ==
  RowsComputed =>
    \A i \in 1..Len(ecmData) :
      /\ tableRows[i].electricity_savings
           = EnergyOfLabel(ecmData[i].savings_entries, "Electricity")
      /\ tableRows[i].gas_savings
           = EnergyOfLabel(ecmData[i].savings_entries, "Natural Gas")
      /\ (\A j \in 1..Len(ecmData[i].savings_entries) :
            ecmData[i].savings_entries[j].fuel_type \notin {"Electricity", "Natural Gas"})
           => tableRows[i].electricity_savings = 0 /\ tableRows[i].gas_savings = 0

\* A "Total" entry with energy savings before a "Natural Gas" entry with
\* energy savings: gas_savings is the gas entry's value, electricity_savings 0.
C8_Witness ==
  /\ RowsComputed
  /\ Len(ecmData) = 1
  /\ Len(ecmData[1].savings_entries) = 2
  /\ ecmData[1].savings_entries[1].fuel_type = "Total"
  /\ ecmData[1].savings_entries[1].energy_savings # Absent
  /\ ecmData[1].savings_entries[2].fuel_type = "Natural Gas"
  /\ ecmData[1].savings_entries[2].energy_savings = Some(ValueWithUnit(7, "kWh"))
  /\ tableRows[1].gas_savings = 7
  /\ tableRows[1].electricity_savings = 0

\* C9: demand_savings is the demand_savings.value of the "Electricity" entry
\* and 0 if there is none or it has no demand_savings; demand_savings on
\* entries of any other fuel type never change the result.
C9_DemandSavingsOfElectricity ==
  RowsComputed =>
    \A i \in 1..Len(ecmData) :
      LET entries == ecmData[i].savings_entries
      IN  /\ (\A j \in 1..Len(entries) : entries[j].fuel_type # "Electricity")
               => tableRows[i].demand_savings = 0
          /\ \A j \in 1..Len(entries) :
               IsFirstLabelled(entries, j, "Electricity") =>
                 tableRows[i].demand_savings
                   = (IF entries[j].demand_savings = Absent THEN 0
                      ELSE entries[j].demand_savings[1].value)

\* A "Natural Gas" entry with demand savings next to an "Electricity" entry
\* without: demand_savings is 0.
C9_Witness ==
  /\ RowsComputed
  /\ Len(ecmData) = 1
  /\ Len(ecmData[1].savings_entries) = 2
  /\ ecmData[1].savings_entries[1].fuel_type = "Natural Gas"
  /\ ecmData[1].savings_entries[1].demand_savings = Some(ValueWithUnit(3, "kW"))
  /\ ecmData[1].savings_entries[2].fuel_type = "Electricity"
  /\ ecmData[1].savings_entries[2].demand_savings = Absent
  /\ tableRows[1].demand_savings = 0

\* C10: a record whose savings_entries list is empty yields a row with
\* annual_cost_savings, electricity_savings, gas_savings and demand_savings 0.
C10_NoEntriesAllZero ==
  RowsComputed =>
    \A i \in 1..Len(ecmData) :
      ecmData[i].savings_entries = <<>> =>
        /\ tableRows[i].annual_cost_savings = 0
        /\ tableRows[i].electricity_savings = 0
        /\ tableRows[i].gas_savings = 0
        /\ tableRows[i].demand_savings = 0

\* The row of a record without savings entries.
C10_Witness ==
  /\ RowsComputed
  /\ Len(ecmData) = 1
  /\ ecmData[1].savings_entries = <<>>
  /\ tableRows[1].annual_cost_savings = 0
  /\ tableRows[1].electricity_savings = 0
  /\ tableRows[1].gas_savings = 0
  /\ tableRows[1].demand_savings = 0

\* C11 as stated: the only payback a row carries that is not meaningful is
\* +Infinity: no row has a negative payback, and a record whose incentives
\* exceed its implementation cost, with positive annual savings, has
\* simple_payback = +Infinity.
C11_NegativePaybackIsInfinity ==
  RowsComputed =>
    \A i \in 1..Len(ecmData) :
      /\ tableRows[i].simple_payback = Infinity \/ tableRows[i].simple_payback.num >= 0
      /\ (tableRows[i].annual_cost_savings > 0 /\ NetCostOf(ecmData[i]) < 0)
           => tableRows[i].simple_payback = Infinity

\* C11 amended: +Infinity is the only sentinel and a row carries it exactly
\* when its annual savings are 0 or negative; a record whose incentives exceed
\* its implementation cost, with positive annual savings, has the negative
\* finite payback (cost - incentives) / annual savings.
C11_InfinityOnlyWithoutSavings ==
  RowsComputed =>
    \A i \in 1..Len(ecmData) :
      /\ tableRows[i].simple_payback.den = 0 => tableRows[i].simple_payback = Infinity
      /\ tableRows[i].simple_payback = Infinity <=> tableRows[i].annual_cost_savings <= 0
      /\ (tableRows[i].annual_cost_savings > 0 /\ NetCostOf(ecmData[i]) < 0)
           => /\ tableRows[i].simple_payback.num < 0
              /\ IsQuotient(tableRows[i].simple_payback, NetCostOf(ecmData[i]),
                            tableRows[i].annual_cost_savings)

\* A record with incentives 1500 above its cost 1000 and savings 250: its
\* payback is -2, not +Infinity.
C11_Witness ==
  /\ RowsComputed
  /\ \E i \in 1..Len(ecmData) :
       /\ NetCostOf(ecmData[i]) = 0 - 500
       /\ tableRows[i].annual_cost_savings = 250
       /\ tableRows[i].simple_payback = [num |-> 0 - 2, den |-> 1]

\* A payback that is negative or +Infinity
IsNotMeaningful(x) == x = Infinity \/ (x.den > 0 /\ x.num < 0)

\* C12: every consumer of simple_payback treats a negative and a +Infinity
\* payback alike as not meaningful: the comparison table shows "N/A", the
\* detail card shows "N/A" and neither the payback chip nor the financial
\* summary, the payback chart leaves the row out and the portfolio average
\* does not count it.
C12_NegativeAndInfiniteAlike ==
  ViewRendered =>
    LET meaningless == {i \in 1..Len(tableRows) : IsNotMeaningful(tableRows[i].simple_payback)}
        zero == {i \in 1..Len(tableRows) : tableRows[i].simple_payback = [num |-> 0, den |-> 1]}
        counted == SelectSeq(ecmData, LAMBDA ecm :
                     ~IsNotMeaningful(transformToTableRows(<<ecm>>)[1].simple_payback))
    IN  /\ \A i \in meaningless :
             /\ view[1].table[i] = [formatted |-> "N/A", color |-> "default", label |-> "N/A"]
             /\ view[1].cards[i].simple_payback = "N/A"
             /\ view[1].cards[i].chip = Absent
             /\ view[1].cards[i].financial_summary = FALSE
        /\ \A i, j \in meaningless :
             /\ view[1].table[i] = view[1].table[j]
             /\ view[1].cards[i].chip = view[1].cards[j].chip
             /\ view[1].cards[i].simple_payback = view[1].cards[j].simple_payback
             /\ view[1].cards[i].financial_summary = view[1].cards[j].financial_summary
        /\ Len(view[1].chart) = Len(tableRows) - Cardinality(meaningless) - Cardinality(zero)
        /\ \A k \in 1..Len(view[1].chart) : ~IsNotMeaningful(view[1].chart[k].payback)
        /\ summary[1].average_payback_period
             = calculateEcmSummary(counted).average_payback_period

\* A row with payback -5 and a row with payback +Infinity next to a row with
\* payback 4: "N/A" twice in the table, one bar in the chart, average 4.
C12_Witness ==
  /\ ViewRendered
  /\ Len(tableRows) = 3
  /\ tableRows[1].simple_payback = [num |-> 0 - 5, den |-> 1]
  /\ tableRows[2].simple_payback = Infinity
  /\ tableRows[3].simple_payback = [num |-> 4, den |-> 1]
  /\ view[1].table[1].label = "N/A"
  /\ view[1].table[2].label = "N/A"
  /\ view[1].table[3].label = "4.0 yrs"
  /\ view[1].cards[1].simple_payback = "N/A"
  /\ view[1].cards[2].simple_payback = "N/A"
  /\ Len(view[1].chart) = 1
  /\ summary[1].average_payback_period = [num |-> 4, den |-> 1]

\* C13: there is no exception path: for every record list of the documented
\* shape (optional members present or absent, savings_entries possibly empty)
\* extractBuildingInfo, transformToTableRows and calculateEcmSummary each
\* return a value and never throw.
C13_NoException ==
  /\ pc # "threw"
  /\ ~extractBuildingInfoThrows(ecmData)
  /\ ~transformToTableRowsThrows(ecmData)
  /\ ~calculateEcmSummaryThrows(ecmData)
  /\ InfoComputed => (buildingInfo = Absent <=> ecmData = <<>>)
  /\ RowsComputed => Len(tableRows) = Len(ecmData)
  /\ SummaryComputed => summary # Absent /\ summary[1].total_ecms = Len(ecmData)

\* All three functions have returned for a record without incentives, whose
\* "Total" entry has no cost_savings and whose "Electricity" entry has neither
\* energy_savings nor demand_savings.
C13_Witness ==
  /\ SummaryComputed
  /\ Len(ecmData) = 1
  /\ ecmData[1].incentives = Absent
  /\ Len(ecmData[1].savings_entries) = 2
  /\ ecmData[1].savings_entries[1].fuel_type = "Total"
  /\ ecmData[1].savings_entries[1].cost_savings = Absent
  /\ ecmData[1].savings_entries[2].fuel_type = "Electricity"
  /\ ecmData[1].savings_entries[2].energy_savings = Absent
  /\ ecmData[1].savings_entries[2].demand_savings = Absent
  /\ buildingInfo # Absent
  /\ Len(tableRows) = 1
  /\ summary # Absent

\* C14: the transformation layer never mutates its input and its outputs share
\* no structure with it: no object or array reachable from an output
\* (gross_floor_area, site_eui_at_audit, climate_zone, ecm_package_ids) is the
\* same object as one reachable from the record list.
C14_NoSharedStructure == outputRefs \cap InputObjects(ecmData) = {}

\* C16: on the four-record sample set calculateEcmSummary gives total
\* implementation cost 634,362 and total annual savings 21,847.
C16_SampleTotals ==
  (SummaryComputed /\ ecmData = mockResults) =>
    /\ summary[1].total_implementation_cost = 634362
    /\ summary[1].total_annual_savings = 21847

\* The summary of the sample set has been computed from its four rows, with
\* the costs and savings the claim lists.
C16_Witness ==
  /\ SummaryComputed
  /\ ecmData = mockResults
  /\ summary[1].total_ecms = 4
  /\ [i \in 1..4 |-> tableRows[i].implementation_cost] = <<75590, 10756, 515564, 32452>>
  /\ [i \in 1..4 |-> tableRows[i].annual_cost_savings] = <<504, 2188, 6515, 12640>>
  /\ [i \in 1..4 |-> tableRows[i].incentives] = <<0, 5378, 289500, 0>>

\* A finite number to the nearest hundredth, in hundredths
Hundredths(x) == (200 * x.num + x.den) \div (2 * x.den)

SamplePaybacksAre(roof, led, vrf, solar, average) ==
  (SummaryComputed /\ ecmData = mockResults) =>
    /\ [i \in 1..4 |-> Hundredths(tableRows[i].simple_payback)] = <<roof, led, vrf, solar>>
    /\ Hundredths(summary[1].average_payback_period) = average

\* C17 as stated: on the sample set the paybacks are, to two decimal places,
\* Roof 149.98, LED 2.46, VRF 34.67 and Solar 2.57, and their average 47.42.
C17_SamplePaybacksAsStated == SamplePaybacksAre(14998, 246, 3467, 257, 4742)

\* C17: on the sample set the paybacks are, to two decimal places, Roof 149.98,
\* LED 2.46, VRF 34.70 and Solar 2.57, and their average 47.43.
C17_SamplePaybacks == SamplePaybacksAre(14998, 246, 3470, 257, 4743)

\* The four sample rows all have a finite positive payback and the summary
\* averages the four of them.
C17_Witness ==
  /\ SummaryComputed
  /\ ecmData = mockResults
  /\ Len(tableRows) = 4
  /\ \A i \in 1..4 : IsValidPayback(tableRows[i])
  /\ tableRows[3].simple_payback = JsDiv(515564 - 289500, 6515)
  /\ IsFinitePositive(summary[1].average_payback_period)

\* C18: for every row with annual_cost_savings > 0, simple_payback times
\* annual_cost_savings is the row's implementation_cost - incentives, the net
\* cost the detail card shows; with cost >= 0 and incentives >= 0 the payback is
\* negative only if the incentives exceed the cost and 0 only if they are equal.
C18_PaybackTimesSavingsIsNetCost ==
  ViewRendered =>
    \A i \in 1..Len(tableRows) :
      LET row == tableRows[i]
          payback == row.simple_payback
      IN  row.annual_cost_savings > 0 =>
            /\ payback.den > 0
            /\ payback.num * row.annual_cost_savings
                 = (row.implementation_cost - row.incentives) * payback.den
            /\ view[1].cards[i].net_cost = row.implementation_cost - row.incentives
            /\ (row.implementation_cost >= 0 /\ row.incentives >= 0) =>
                 /\ payback.num < 0 => row.incentives > row.implementation_cost
                 /\ payback.num = 0 => row.incentives = row.implementation_cost

\* Three rows with savings: incentives above the cost and a negative payback,
\* incentives equal to the cost and payback 0, incentives below the cost and a
\* positive payback.
C18_Witness ==
  /\ ViewRendered
  /\ Len(tableRows) = 3
  /\ \A i \in 1..3 : tableRows[i].annual_cost_savings > 0
  /\ tableRows[1].incentives > tableRows[1].implementation_cost
  /\ tableRows[1].simple_payback.num < 0
  /\ view[1].cards[1].net_cost < 0
  /\ tableRows[2].incentives = tableRows[2].implementation_cost
  /\ tableRows[2].simple_payback = [num |-> 0, den |-> 1]
  /\ tableRows[3].incentives < tableRows[3].implementation_cost
  /\ tableRows[3].simple_payback.num > 0

\* C19: average_payback_period is +Infinity or a finite number > 0, and it is
\* +Infinity exactly when no row has a finite payback > 0; so the dashboard's
\* test `=== Infinity` shows "N/A" exactly when the row rule
\* `=== Infinity || < 0` would, and the formatted value otherwise.
C19_AverageInfiniteOrPositive ==
  ViewRendered =>
    LET average == summary[1].average_payback_period
        qualifying == {i \in 1..Len(tableRows) : IsFinitePositive(tableRows[i].simple_payback)}
    IN  /\ average = Infinity \/ IsFinitePositive(average)
        /\ average = Infinity <=> qualifying = {}
        /\ view[1].average_payback = "N/A" <=> average = Infinity
        /\ view[1].average_payback = TablePaybackCell(average).label

\* Rows with paybacks -5, 0 and +Infinity: none qualifies, the average is
\* +Infinity and the dashboard shows "N/A".
C19_Witness ==
  /\ ViewRendered
  /\ Len(tableRows) = 3
  /\ tableRows[1].simple_payback = [num |-> 0 - 5, den |-> 1]
  /\ tableRows[2].simple_payback = [num |-> 0, den |-> 1]
  /\ tableRows[3].simple_payback = Infinity
  /\ summary[1].average_payback_period = Infinity
  /\ view[1].average_payback = "N/A"

\* C20: after "Upload and Process" with a selected PDF, once extract-markdown
\* and the list refresh have both succeeded (the handler has then set
\* shouldNavigate), the app eventually navigates to the staging page.
C20_UploadEventuallyNavigates == shouldNavigate ~> (route = StagingRoute)

\* The fields of the state that hold the data of one PDF
PerPdfFields(s) ==
  <<s.currentPdfId, s.extractedMarkdown, s.editedMarkdown, s.images, s.ecmResults>>

\* The state holds the stored data of the PDF, with or without its results
HoldsDataOf(s, pdfId) ==
  \E data \in PdfData(pdfId) :
    PerPdfFields(s) = <<Some(data.id), data.markdown, data.markdown, data.images,
                        data.ecm_results>>

\* C21: when the request of handleViewPdf for a PDF is answered OK, the state
\* then holds the data of that PDF and the route is the results page if the
\* data has results and the staging page otherwise; when the request fails,
\* the route and the per-PDF fields of the state stay as they were
C21_ViewLoadsAndNavigates ==
  [][\A i \in Awaiting("handleViewPdf", "pdf") :
       /\ (ViewPdfOk /\ inFlight' = RemoveAt(inFlight, i))
            => /\ HoldsDataOf(state', inFlight[i].file)
               /\ route' = IF state'.ecmResults # Absent THEN ResultsRoute ELSE StagingRoute
       /\ (ViewPdfFails /\ inFlight' = RemoveAt(inFlight, i))
            => /\ route' = route
               /\ PerPdfFields(state') = PerPdfFields(state)]_vars

\* A PDF with results was viewed, and, back on the upload page, a later view
\* failed
C21_Witness ==
  /\ route = UploadRoute
  /\ state.error = Some("Failed to load PDF data")
  /\ state.currentPdfId = Some("audit-b.pdf")
  /\ state.ecmResults = Some(EcmResults("audit-b.pdf", ExtractedData("audit-b.pdf").markdown))

\* The positions of a list whose entry has another id
OtherEntries(pdfs, pdfId) == {i \in 1..Len(pdfs) : pdfs[i].id # pdfId}

\* t is what DELETE_PDF_FROM_LIST of the id makes of s
DeletedFrom(s, t, pdfId) ==
  LET kept == OtherEntries(s.uploadedPdfs, pdfId)
  IN  /\ Len(t.uploadedPdfs) = Cardinality(kept)
      /\ \A i \in kept :
            t.uploadedPdfs[Cardinality({j \in kept : j <= i})] = s.uploadedPdfs[i]
      /\ PerPdfFields(t) = IF s.currentPdfId = Some(pdfId)
                             THEN PerPdfFields(initialState)
                             ELSE PerPdfFields(s)
      /\ <<t.uploadedFile, t.fileName, t.isLoading, t.error>>
           = <<s.uploadedFile, s.fileName, s.isLoading, s.error>>

\* C22: the step that dispatches DELETE_PDF_FROM_LIST of an id removes the
\* entries with that id from uploadedPdfs and keeps the others in order; it
\* resets currentPdfId, the markdowns, images and ecmResults to their initial
\* values if the id is the current one and leaves them otherwise; uploadedFile,
\* fileName, isLoading and error stay
C22_DeleteFrame ==
  [][\A i \in Awaiting("handleDeletePdf", "delete") :
       (DeletePdfOk /\ inFlight' = RemoveAt(inFlight, i))
         => DeletedFrom(state, state', inFlight[i].file)]_vars

\* The PDF whose results are shown was deleted, the other one is still listed
C22_Witness ==
  /\ route = ResultsRoute
  /\ state.uploadedPdfs = <<PdfMetadata("audit-b.pdf")>>
  /\ PerPdfFields(state) = PerPdfFields(initialState)

\* C23: handleDeletePdf changes no state before its request is answered, and
\* none when the request fails or is answered not OK
C23_DeleteOnlyAfterOk ==
  [][(HandleDeletePdf \/ DeletePdfFails) => state' = state]_vars

\* The deletion of the current PDF awaits its answer with the PDF still listed
C23_Witness ==
  \E i \in Awaiting("handleDeletePdf", "delete") :
    /\ state.currentPdfId = Some(inFlight[i].file)
    /\ inFlight[i].file \in ListedPdfIds
    /\ state.ecmResults # Absent

\* C24: LOAD_PDF_DATA with the data of a PDF, in any state, gives a state whose
\* currentPdfId, extractedMarkdown, editedMarkdown and images are those of the
\* payload and whose ecmResults are the results of the payload, or null
\* without them, with isLoading false and error null
C24_LoadPdfDataSetsAll ==
  \A pdfId \in PdfIds :
    \A data \in PdfData(pdfId) :
      LET loaded == ecmExtractorReducer(state, loadPdfData(data.id, data.markdown,
                                                          data.images, data.ecm_results))
      IN  /\ loaded.currentPdfId = Some(pdfId)
          /\ loaded.extractedMarkdown = data.markdown
          /\ loaded.editedMarkdown = data.markdown
          /\ loaded.images = data.images
          /\ loaded.ecmResults = data.ecm_results
          /\ ~loaded.isLoading
          /\ loaded.error = Absent

\* A state with the results of a PDF, an error and a request under way, in
\* which a view is answered next
C24_Witness ==
  /\ state.currentPdfId = Some("audit-a.pdf")
  /\ state.ecmResults # Absent
  /\ state.editedMarkdown # state.extractedMarkdown
  /\ state.error # Absent
  /\ state.isLoading
  /\ Awaiting("handleViewPdf", "pdf") # {}

\* The page shown lacks its prerequisite
NoPrerequisite ==
  \/ route = StagingRoute /\ state.editedMarkdown = ""
  \/ route = ResultsRoute /\ state.ecmResults = Absent

ExtractMessages == {"Failed to extract ECM data from markdown", "Failed to fetch"}

\* C26: when the request of handleExtract is answered OK, the state then holds
\* the results built from the answer, the route is the results page, which
\* renders them, and isLoading is false; when the request fails, ecmResults
\* and editedMarkdown stay, error holds the message, the route stays and
\* isLoading is false
C26_ExtractOutcome ==
  [][\A i \in Awaiting("handleExtract", "extract-ecm") :
       /\ (ExtractEcmOk /\ inFlight' = RemoveAt(inFlight, i))
            => /\ state'.ecmResults = Some(EcmResults(inFlight[i].file, inFlight[i].markdown))
               /\ route' = ResultsRoute
               /\ ~state'.isLoading
       /\ (ExtractEcmFails /\ inFlight' = RemoveAt(inFlight, i))
            => /\ state'.ecmResults = state.ecmResults
               /\ state'.editedMarkdown = state.editedMarkdown
               /\ state'.error \in {Some(message) : message \in ExtractMessages}
               /\ route' = route
               /\ ~state'.isLoading]_vars

\* An edited markdown was extracted, and, back on the staging page, a later
\* extraction failed
C26_Witness ==
  /\ route = StagingRoute
  /\ state.error = Some("Failed to extract ECM data from markdown")
  /\ state.ecmResults = Some(EcmResults("", Edited(ExtractedData("audit-a.pdf").markdown)))
  /\ state.editedMarkdown # ""

IsPrefix(s, t) == Len(s) <= Len(t) /\ SubSeq(t, 1, Len(s)) = s

\* C27: the messages start with the greeting of the assistant and are only
\* appended to; a send with a blank input changes nothing; any other send
\* appends the message of the user and issues one request with the messages
\* before the send and that message; an OK answer appends one message of the
\* assistant, a failure sets the error and appends nothing; isLoading is true
\* exactly while the request awaits its answer
C27_ChatAppendOnly ==
  /\ [](chat.messages # <<>> /\ chat.messages[1] = Greeting)
  /\ [](chat.isLoading <=> chatRequests # <<>>)
  /\ [][IsPrefix(chat.messages, chat.messages')]_vars
  /\ [][HandleSendMessage =>
          IF Trim(chat.input) = ""
            THEN UNCHANGED chatVars
            ELSE /\ chat'.messages = Append(chat.messages, Message("user", chat.input))
                 /\ chatRequests' = Append(chatRequests, [messages |-> chat'.messages])
                 /\ Len(chatRequests') = 1]_vars
  /\ [][ChatOk => /\ Len(chat'.messages) = Len(chat.messages) + 1
                  /\ chat'.messages[Len(chat'.messages)].role = "assistant"
                  /\ chat'.error = chat.error]_vars
  /\ [][ChatFails => /\ chat'.messages = chat.messages
                     /\ chat'.error # Absent]_vars

\* After a failed and an answered exchange, a blank input is in the field
C27_Witness ==
  /\ Len(chat.messages) = 4
  /\ chat.messages[2].role = "user" /\ chat.messages[3].role = "user"
  /\ chat.messages[4] = Message("assistant", "No response")
  /\ chat.input = "  "
  /\ ~chat.isLoading

\* The PDF whose markdown, as stored or as edited, the results were extracted from
OwnerOf(results) ==
  {pdfId \in PdfIds :
     results.records[1] \in {ExtractedData(pdfId).markdown,
                             Edited(ExtractedData(pdfId).markdown)}}

\* C28: non-null ecmResults are those of the PDF that currentPdfId names
C28_ResultsOfCurrentPdf ==
  state.ecmResults # Absent
    => /\ state.currentPdfId # Absent
       /\ state.currentPdfId[1] \in OwnerOf(state.ecmResults[1])

\* The handlers that set isLoading while they await a request
LoadingHandlers == {"handleUploadAndProcess", "handleViewPdf", "handleExtract"}

\* C29: isLoading is true whenever a request of handleUploadAndProcess,
\* handleViewPdf or handleExtract awaits its answer
C29_LoadingWhileInFlight ==
  (\E i \in 1..Len(inFlight) : inFlight[i].handler \in LoadingHandlers) => state.isLoading

\* The PDFs of the view requests that await their answer, in the order of the
\* clicks
ViewsInFlight ==
  LET views == SelectSeq(inFlight, LAMBDA r : r.handler = "handleViewPdf")
  IN  [i \in 1..Len(views) |-> views[i].file]

\* C30: with View clicked for one PDF and then, before the first answer, for
\* another, and no third click, once both answers are processed the state
\* holds the data of the second PDF and the page shown is the one of that PDF
C30_LastViewWins ==
  \A a, b \in PdfIds :
    a # b =>
      ((route = UploadRoute /\ ViewsInFlight = <<a, b>>)
         ~> \/ /\ ViewsInFlight = <<>>
               /\ HoldsDataOf(state, b)
               /\ route = IF state.ecmResults # Absent THEN ResultsRoute ELSE StagingRoute
            \/ Len(ViewsInFlight) > 2)

====
